---- MODULE Spec2Model ----
(***************************************************************************)
(* A model of proof-essentials: the Schnorr and Chaum-Pedersen proofs, the *)
(* Fixed-EDL unique signature and the Bayer-Groth shuffle argument with    *)
(* its sub-arguments.                                                      *)
(*                                                                         *)
(* The prime-order group G is modelled by the discrete logarithms of its   *)
(* elements: a group element is a residue modulo Q, the group law is       *)
(* addition modulo Q and scalar multiplication is multiplication modulo Q. *)
(* The scalar field F is the residues modulo Q.                            *)
(***************************************************************************)
EXTENDS Integers, Sequences, FiniteSets, TLC

\* ------------------------------------------------------------ bounds

\* Order of the scalar field and of the group (a small prime).
Q == 5

\* The digest family D: Digest the code is generic over.
DigestMod == 1009
DigestBase == 31
MaxDigestKey == 0

\* Distinct in-memory (projective) representations of one group element.
MaxZ == 2

\* The family of generators rng: &mut R ranges over.
MaxRngC == 0

\* The width of usize: sizes and indices are computed modulo 2^UsizeBits.
UsizeBits == 8

\* Calls of verify on one transcript object.
MaxVerify == 2

\* Transcript seeds a caller may choose (from_seed), beside seed 1.
MaxSeed == 2

\* Signatures one FEDL key pair makes of a message, and messages to choose from.
MaxSigs == 2
MaxMsg == 1

\* Longest value vector handed to PedersenCommitment::commit.
MaxValues == 3

\* ------------------------------------------------------------ field and group

F == 0..(Q - 1)

FAdd(a, b) == (a + b) % Q
FSub(a, b) == (a - b + Q) % Q
FMul(a, b) == (a * b) % Q
FNeg(a) == (Q - a) % Q

\* Scalar multiplication of a group element (AffineCurve::mul).
GMul(p, s) == (p * s) % Q
GAdd(p, q) == (p + q) % Q

\* A projective point: the group element and the representative holding it.
Proj(pt, z) == [pt |-> pt, z |-> z]
ZReps == 1..MaxZ

\* to_bytes! of an affine point, a projective point, a scalar.
AffineBytes(pt) == <<pt>>
ProjBytes(p) == <<p.pt, p.z>>
ScalarBytes(s) == <<s>>

\* ------------------------------------------------------------ results

Ok == [kind |-> "Ok", label |-> ""]
ProofVerificationError(label) == [kind |-> "ProofVerificationError", label |-> label]
CannotHashToCurve == [kind |-> "CannotHashToCurve", label |-> ""]
None == [kind |-> "None", label |-> ""]

\* The outcome of a call that does not return: an index past the end of a
\* Vec (self.vector_of_committed_diagonals[m + 1], self.b_commits[m - 1],
\* self.commit_b_k[m], ...) panics.
Panic == [kind |-> "panic", label |-> "index out of bounds"]

\* ------------------------------------------------------------ randomness

\* rng: &mut R, a generator drawn from a small family: s is the next output.
RngStates == [s : F, c : 0..MaxRngC]
Rand(r) == r.s
RngNext(r) == [s |-> (2 * r.s + r.c + 1) % Q, c |-> r.c]

\* ------------------------------------------------------------ Fiat-Shamir transcript

\* The digest of a byte string from the chaining value h; each byte is mixed
\* with the chaining value, so that the digest depends on the order of the bytes
\* and of the strings digested one after the other.
RECURSIVE DigestFrom(_, _)
DigestFrom(h, bytes) ==
    IF bytes = <<>> THEN h
    ELSE DigestFrom((h * DigestBase + (Head(bytes) + 1) * (Head(bytes) + 1 + h))
                       % DigestMod,
                    Tail(bytes))

\* D::digest under the family member k.
Digest(k, bytes) == DigestFrom(k.d, bytes)

Keys == [d : 0..MaxDigestKey, o : F]

RECURSIVE Pow(_, _)
Pow(b, e) == IF e = 0 THEN 1 ELSE b * Pow(b, e - 1)

\* FiatShamirRng::from_seed
from_seed(k, seed) == [seed |-> Digest(k, seed), ctr |-> 0]

\* FiatShamirRng::absorb: the new seed digests the input followed by the old seed,
\* and the output stream restarts.
absorb(k, t, bytes) == [seed |-> Digest(k, bytes \o <<t.seed>>), ctr |-> 0]

\* Scalar::rand(fs_rng): the next field element of the output stream.
SqueezeValue(k, t) == ((t.seed \div Pow(Q, t.ctr)) + k.o) % Q
SqueezeNext(t) == [seed |-> t.seed, ctr |-> t.ctr + 1]


Seeds == 1..MaxSeed

\* ------------------------------------------------------------ state

VARIABLES
    key,    \* the member of the digest family both transcripts use
    rng,    \* the prover's randomness source
    fsP,    \* the transcript object handed to prove
    fsV,    \* the transcript object handed to verify
    sch,    \* Schnorr identification: parameters, statement, witness, proof, results
    cp,     \* Chaum-Pedersen: parameters, statements, witness, proof, results
    fedl,   \* Fixed-EDL: key pair, message, signatures, results
    shf,    \* shuffle argument: parameters, statement, witness, proof, results
    ped,    \* Pedersen commitment: key, values, randomness, commitments
    svarg,  \* single value product argument: statement, witness, proof, results
    hparg,  \* Hadamard product argument: statement, witness, proof, results
    mearg,  \* multi-exponentiation argument: statement, witness, proof, results
    zvarg   \* zero-value argument: statement, witness, blinding rows, proof, result

vars == <<key, rng, fsP, fsV, sch, cp, fedl, shf, ped, svarg, hparg, mearg, zvarg>>

Idle == [pc |-> "idle"]

\* ------------------------------------------------------------ Schnorr identification

TagSchnorr == 1101

SchnorrProof(random_commit, opening) ==
    [random_commit |-> random_commit, opening |-> opening]

Schnorr_create_proof_Plus(k, r, pp, statement, witness, t, z) ==
    LET random == Rand(r)
        random_commit == Proj(GMul(pp, random), z)
        t1 == absorb(k, t, <<TagSchnorr>> \o AffineBytes(pp) \o AffineBytes(statement)
                              \o ProjBytes(random_commit))
        c == SqueezeValue(k, t1)
        opening == FAdd(random, FMul(c, witness))
    IN  [proof |-> SchnorrProof(random_commit, opening),
         fs |-> SqueezeNext(t1), rng |-> RngNext(r), c |-> c]

\* Prover::create_proof; z is the representative the multiplication returns.
Schnorr_create_proof(k, r, pp, statement, witness, t, z) ==
    LET random == Rand(r)
        random_commit == Proj(GMul(pp, random), z)
        t1 == absorb(k, t, <<TagSchnorr>> \o AffineBytes(pp) \o AffineBytes(statement)
                              \o ProjBytes(random_commit))
        c == SqueezeValue(k, t1)
        opening == FSub(random, FMul(c, witness))
    IN  [proof |-> SchnorrProof(random_commit, opening),
         fs |-> SqueezeNext(t1), rng |-> RngNext(r), c |-> c]

\* The verifier's check s*g + c*P == R.
SchnorrCheck(pp, statement, proof, c) ==
    GAdd(GMul(pp, proof.opening), GMul(statement, c)) = proof.random_commit.pt

Schnorr_verify_NoChallenge(k, proof, pp, statement, t) ==
    LET t1 == absorb(k, t, <<TagSchnorr>> \o AffineBytes(pp) \o AffineBytes(statement)
                              \o ProjBytes(proof.random_commit))
        c == SqueezeValue(k, t1)
    IN  [res |-> IF GMul(pp, proof.opening) = proof.random_commit.pt
                 THEN Ok ELSE ProofVerificationError("Schnorr Identification"),
         fs |-> SqueezeNext(t1), c |-> c]

\* Proof::verify
Schnorr_verify(k, proof, pp, statement, t) ==
    LET t1 == absorb(k, t, <<TagSchnorr>> \o AffineBytes(pp) \o AffineBytes(statement)
                              \o ProjBytes(proof.random_commit))
        c == SqueezeValue(k, t1)
    IN  [res |-> IF SchnorrCheck(pp, statement, proof, c)
                 THEN Ok ELSE ProofVerificationError("Schnorr Identification"),
         fs |-> SqueezeNext(t1), c |-> c]

\* #[derive(CanonicalSerialize)] on Proof<C>: the fields in declaration order,
\* the point in its affine encoding.
Schnorr_serialize(proof) ==
    AffineBytes(proof.random_commit.pt) \o ScalarBytes(proof.opening)

\* #[derive(CanonicalDeserialize)] on Proof<C>: the point read in its affine
\* encoding and converted to the projective point with z = 1.
Schnorr_deserialize(bytes) == SchnorrProof(Proj(bytes[1], 1), bytes[2])

\* test_template: crs, sk, pk = sk*crs; the witness handed to prove is sk
\* (test_honest_prover) or another scalar (test_malicious_prover).
SchnorrInit ==
    /\ key \in Keys
    /\ rng \in RngStates
    /\ \E g \in F, x \in F, w \in F, sv \in Seeds :
          /\ sch = [pc |-> "start", pp |-> g, sk |-> x, statement |-> GMul(g, x),
                    witness |-> w, seedP |-> 1, seedV |-> sv,
                    proof |-> SchnorrProof(Proj(0, 1), 0), cP |-> 0, cV |-> <<>>,
                    results |-> <<>>, made |-> SchnorrProof(Proj(0, 1), 0)]
          /\ fsP = from_seed(key, <<1>>)
          /\ fsV = from_seed(key, <<sv>>)
    /\ cp = Idle
    /\ fedl = Idle
    /\ shf = Idle
    /\ ped = Idle
    /\ svarg = Idle
    /\ hparg = Idle
    /\ mearg = Idle
    /\ zvarg = Idle

SchnorrProve ==
    /\ sch.pc = "start"
    /\ \E z \in ZReps :
          LET out == Schnorr_create_proof(key, rng, sch.pp, sch.statement, sch.witness, fsP, z)
          IN  /\ sch' = [sch EXCEPT !.pc = "proved", !.proof = out.proof, !.cP = out.c,
                                   !.made = out.proof]
              /\ fsP' = out.fs
              /\ rng' = out.rng
    /\ UNCHANGED <<key, fsV, cp, fedl, shf, ped, svarg, hparg, mearg, zvarg>>

\* The proof is serialized and deserialized before it is verified.
SchnorrReload ==
    /\ sch.pc = "proved"
    /\ sch.results = <<>>
    /\ sch' = [sch EXCEPT !.pc = "reloaded",
                          !.proof = Schnorr_deserialize(Schnorr_serialize(sch.proof))]
    /\ UNCHANGED <<key, rng, fsP, fsV, cp, fedl, shf, ped, svarg, hparg, mearg, zvarg>>

SchnorrVerify ==
    /\ sch.pc \in {"proved", "reloaded"}
    /\ Len(sch.results) < MaxVerify
    /\ LET out == Schnorr_verify(key, sch.proof, sch.pp, sch.statement, fsV)
       IN  /\ sch' = [sch EXCEPT !.results = Append(@, out.res), !.cV = Append(@, out.c)]
           /\ fsV' = out.fs
    /\ UNCHANGED <<key, rng, fsP, cp, fedl, shf, ped, svarg, hparg, mearg, zvarg>>

SchnorrNext == SchnorrProve \/ SchnorrReload \/ SchnorrVerify

SpecSchnorr == SchnorrInit /\ [][SchnorrNext]_vars

\* C4: an honest Schnorr proof (witness = sk, P = sk*g) is accepted by verify when
\* the verifier's transcript starts from the prover's seed, for every g, sk, nonce
\* and digest.
C4_SchnorrComplete ==
    (sch.pc = "proved" /\ Len(sch.results) >= 1
        /\ sch.witness = sch.sk /\ sch.seedV = sch.seedP)
    => sch.results[1] = Ok

C4_Witness ==
    /\ sch.pc = "proved" /\ Len(sch.results) >= 1
    /\ sch.witness = sch.sk /\ sch.seedV = sch.seedP
    /\ sch.pp # 0 /\ sch.sk # 0 /\ sch.cP # 0
    /\ sch.results[1] = Ok

SchnorrMalicious ==
    /\ sch.pc = "proved" /\ Len(sch.results) >= 1
    /\ sch.witness # sch.sk /\ sch.seedV = sch.seedP

\* C5 as stated: for a generator g, a proof made with a witness other than sk is
\* rejected with ProofVerificationError("Schnorr Identification") whatever the
\* challenge is.
C5_AlwaysRejected ==
    (SchnorrMalicious /\ sch.pp # 0)
    => sch.results[1] = ProofVerificationError("Schnorr Identification")

\* C5 amended: a proof made with a witness other than sk is rejected with
\* ProofVerificationError("Schnorr Identification") exactly when the challenge is
\* not 0 and g is not the identity; otherwise verify returns Ok.
C5_RejectedUnlessZeroChallenge ==
    SchnorrMalicious =>
        /\ sch.results[1] = (IF sch.cP # 0 /\ sch.pp # 0
                             THEN ProofVerificationError("Schnorr Identification") ELSE Ok)
        /\ sch.cV[1] = sch.cP

C5_Witness ==
    /\ SchnorrMalicious /\ sch.cP # 0 /\ sch.pp # 0
    /\ sch.results[1] = ProofVerificationError("Schnorr Identification")

\* ------------------------------------------------------------ Chaum-Pedersen DL equality

TagChaumPedersen == 1102

\* Parameters::new, Statement::new
CPParameters(g, h) == [g |-> g, h |-> h]
CPStatement(point_a, point_b) == <<point_a, point_b>>

CPProof(a, b, r) == [a |-> a, b |-> b, r |-> r]

CP_create_proof_Minus(k, rg, parameters, statement, witness, t, za, zb) ==
    LET t1 == absorb(k, t, <<TagChaumPedersen>> \o AffineBytes(parameters.g)
                              \o AffineBytes(parameters.h) \o AffineBytes(statement[1])
                              \o AffineBytes(statement[2]))
        omega == Rand(rg)
        a == Proj(GMul(parameters.g, omega), za)
        b == Proj(GMul(parameters.h, omega), zb)
        t2 == absorb(k, t1, ProjBytes(a) \o ProjBytes(b))
        c == SqueezeValue(k, t2)
        r == FSub(omega, FMul(c, witness))
    IN  [proof |-> CPProof(a, b, r), fs |-> SqueezeNext(t2), rng |-> RngNext(rg), c |-> c]

\* Prover::create_proof; za, zb are the representatives the multiplications return.
CP_create_proof(k, rg, parameters, statement, witness, t, za, zb) ==
    LET t1 == absorb(k, t, <<TagChaumPedersen>> \o AffineBytes(parameters.g)
                              \o AffineBytes(parameters.h) \o AffineBytes(statement[1])
                              \o AffineBytes(statement[2]))
        omega == Rand(rg)
        a == Proj(GMul(parameters.g, omega), za)
        b == Proj(GMul(parameters.h, omega), zb)
        t2 == absorb(k, t1, ProjBytes(a) \o ProjBytes(b))
        c == SqueezeValue(k, t2)
        r == FAdd(omega, FMul(c, witness))
    IN  [proof |-> CPProof(a, b, r), fs |-> SqueezeNext(t2), rng |-> RngNext(rg), c |-> c]

CPCheckG_Skipped(parameters, statement, proof, c) ==
    TRUE

\* g * r ==? a + x*c
CPCheckG(parameters, statement, proof, c) ==
    GMul(parameters.g, proof.r) = GAdd(proof.a.pt, GMul(statement[1], c))

CPCheckH_Skipped(parameters, statement, proof, c) ==
    TRUE

\* h * r ==? b + y*c
CPCheckH(parameters, statement, proof, c) ==
    GMul(parameters.h, proof.r) = GAdd(proof.b.pt, GMul(statement[2], c))

\* Proof::verify
CP_verify(k, proof, parameters, statement, t) ==
    LET t1 == absorb(k, t, <<TagChaumPedersen>> \o AffineBytes(parameters.g)
                              \o AffineBytes(parameters.h) \o AffineBytes(statement[1])
                              \o AffineBytes(statement[2]))
        t2 == absorb(k, t1, ProjBytes(proof.a) \o ProjBytes(proof.b))
        c == SqueezeValue(k, t2)
    IN  [res |-> IF ~CPCheckG(parameters, statement, proof, c)
                     THEN ProofVerificationError("Chaum-Pedersen")
                 ELSE IF ~CPCheckH(parameters, statement, proof, c)
                     THEN ProofVerificationError("Chaum-Pedersen")
                 ELSE Ok,
         fs |-> SqueezeNext(t2), c |-> c]

\* The first generator: the identity or, up to an automorphism of G, the point 1.
Bases == {0, 1}

\* test_template: g, h, secret; point_a = secret*g, point_b = secret*h. The prover
\* is handed the secret or another scalar; the verifier is handed the statement or
\* one whose second point is another point.
CPInit ==
    /\ key \in Keys
    /\ rng \in {r \in RngStates : r.c = 0}
    /\ \E g \in Bases, h \in F, x \in F, w \in F, bv \in F, sv \in Seeds :
          /\ (w = x \/ bv = GMul(h, x))
          /\ cp = [pc |-> "start", parameters |-> CPParameters(g, h), secret |-> x,
                   statement |-> CPStatement(GMul(g, x), GMul(h, x)),
                   statementV |-> CPStatement(GMul(g, x), bv),
                   witness |-> w, seedP |-> 1, seedV |-> sv,
                   proof |-> CPProof(Proj(0, 1), Proj(0, 1), 0), cP |-> 0, cV |-> <<>>,
                   results |-> <<>>]
          /\ fsP = from_seed(key, <<1>>)
          /\ fsV = from_seed(key, <<sv>>)
    /\ sch = Idle
    /\ fedl = Idle
    /\ shf = Idle
    /\ ped = Idle
    /\ svarg = Idle
    /\ hparg = Idle
    /\ mearg = Idle
    /\ zvarg = Idle

CPProve ==
    /\ cp.pc = "start"
    /\ \E za \in ZReps, zb \in ZReps :
          LET out == CP_create_proof(key, rng, cp.parameters, cp.statement, cp.witness,
                                     fsP, za, zb)
          IN  /\ cp' = [cp EXCEPT !.pc = "proved", !.proof = out.proof, !.cP = out.c]
              /\ fsP' = out.fs
              /\ rng' = out.rng
    /\ UNCHANGED <<key, fsV, sch, fedl, shf, ped, svarg, hparg, mearg, zvarg>>

CPVerify ==
    /\ cp.pc = "proved"
    /\ Len(cp.results) < MaxVerify
    /\ LET out == CP_verify(key, cp.proof, cp.parameters, cp.statementV, fsV)
       IN  /\ cp' = [cp EXCEPT !.results = Append(@, out.res), !.cV = Append(@, out.c)]
           /\ fsV' = out.fs
    /\ UNCHANGED <<key, rng, fsP, sch, fedl, shf, ped, svarg, hparg, mearg, zvarg>>

CPNext == CPProve \/ CPVerify

SpecCP == CPInit /\ [][CPNext]_vars

CPVerified ==
    cp.pc = "proved" /\ Len(cp.results) >= 1 /\ cp.seedV = cp.seedP

\* C6: an honest Chaum-Pedersen proof (witness = secret, A = secret*g,
\* B = secret*h) is accepted by verify on the same statement from the same seed,
\* and the verifier re-derives the prover's challenge.
C6_CPComplete ==
    (CPVerified /\ cp.witness = cp.secret /\ cp.statementV = cp.statement)
    => (cp.results[1] = Ok /\ cp.cV[1] = cp.cP)

C6_Witness ==
    /\ CPVerified /\ cp.witness = cp.secret /\ cp.statementV = cp.statement
    /\ cp.parameters.g # 0 /\ cp.parameters.h # 0 /\ cp.secret # 0 /\ cp.cP # 0
    /\ cp.proof.a.pt # 0
    /\ cp.results[1] = Ok

CPGenerators == cp.parameters.g # 0 /\ cp.parameters.h # 0

CPWrongWitness ==
    CPVerified /\ cp.witness # cp.secret /\ cp.statementV = cp.statement

CPWrongB ==
    CPVerified /\ cp.witness = cp.secret /\ cp.statementV # cp.statement

\* C7 as stated: with generators g and h, a proof made with a witness other than the
\* secret, and an honest proof checked against a statement with another B, are both
\* rejected with ProofVerificationError("Chaum-Pedersen").
C7_AlwaysRejected ==
    (CPGenerators /\ (CPWrongWitness \/ CPWrongB))
    => cp.results[1] = ProofVerificationError("Chaum-Pedersen")

\* C7 amended: verify returns either Ok or ProofVerificationError("Chaum-Pedersen").
\* A proof made with a wrong witness is rejected exactly when the challenge c is not
\* 0 and g, h are not both the identity. An honest proof checked against (A, B') with
\* B' # B is rejected exactly when the re-derived challenge c' fails (c - c')*A = 0 or
\* c*B = c'*B'; with generators and a secret that is not 0 that is unless c = c' = 0.
C7_RejectedUnlessDegenerate ==
    /\ CPWrongWitness =>
          cp.results[1] =
              (IF cp.cP # 0 /\ (cp.parameters.g # 0 \/ cp.parameters.h # 0)
               THEN ProofVerificationError("Chaum-Pedersen") ELSE Ok)
    /\ CPWrongB =>
          /\ cp.results[1] =
                (IF /\ GMul(cp.statement[1], FSub(cp.cP, cp.cV[1])) = 0
                    /\ GMul(cp.statement[2], cp.cP) = GMul(cp.statementV[2], cp.cV[1])
                 THEN Ok ELSE ProofVerificationError("Chaum-Pedersen"))
          /\ (CPGenerators /\ cp.secret # 0 /\ cp.results[1] = Ok)
                => (cp.cP = 0 /\ cp.cV[1] = 0)

C7_Witness ==
    /\ CPWrongB /\ CPGenerators /\ cp.secret # 0 /\ cp.cP # 0
    /\ cp.results[1] = ProofVerificationError("Chaum-Pedersen")

\* ------------------------------------------------------------ Fixed-EDL VUF

FS_RNG_SEED == 1103
MaxNonce == 255

\* The extendable-output function and the point decoding, drawn from a family: the
\* nonces first, first + stride, ... give bytes that decode as a point.
Xofs ==
    { [first |-> 0, stride |-> 1], [first |-> 2, stride |-> 2],
      [first |-> MaxNonce, stride |-> 1], [first |-> MaxNonce + 1, stride |-> 1] }

\* Shake::v128 over nonce || msg, squeezed to the serialized size.
Shake(nonce, msg) == [nonce |-> nonce, msg |-> msg]

\* C::Affine::from_random_bytes
from_random_bytes(xof, output) ==
    IF output.nonce >= xof.first /\ (output.nonce - xof.first) % xof.stride = 0
    THEN [some |-> TRUE, p |-> (output.nonce + 2 * output.msg + 1) % Q]
    ELSE [some |-> FALSE, p |-> 0]

\* try_and_increment on entry: the loop variable and the nonces tried so far.
HashStart == [nonce |-> 0, attempts |-> <<>>, done |-> FALSE, res |-> None, p |-> 0]

RangeEnd_Exclusive(nonce) == nonce = MaxNonce - 1

\* for nonce in 0u8..=255: the last value of the range.
RangeEnd(nonce) == nonce = MaxNonce

\* One iteration of try_and_increment's loop, and its return.
try_and_increment(xof, msg, h) ==
    LET o == from_random_bytes(xof, Shake(h.nonce, msg))
        tried == Append(h.attempts, h.nonce)
    IN  IF o.some
        THEN [nonce |-> h.nonce, attempts |-> tried, done |-> TRUE, res |-> Ok, p |-> o.p]
        ELSE IF RangeEnd(h.nonce)
        THEN [nonce |-> h.nonce, attempts |-> tried, done |-> TRUE,
              res |-> CannotHashToCurve, p |-> 0]
        ELSE [nonce |-> h.nonce + 1, attempts |-> tried, done |-> FALSE, res |-> None,
              p |-> 0]

Signature(proof, b) == [proof |-> proof, b |-> b]
NoSignature == Signature(CPProof(Proj(0, 1), Proj(0, 1), 0), 0)

FEDL_sign_NonceToken(k, rg, h, pp, keypair, za, zb) ==
    LET chaum_pedersen_parameters == CPParameters(pp.g, h.p)
        b == GMul(h.p, Rand(rg))
        statement == CPStatement(keypair[1], b)
        fs_rng == from_seed(k, <<FS_RNG_SEED>>)
        out == CP_create_proof(k, rg, chaum_pedersen_parameters, statement, keypair[2],
                               fs_rng, za, zb)
    IN  IF h.res # Ok
        THEN [res |-> h.res, sig |-> NoSignature, rng |-> rg, c |-> 0]
        ELSE [res |-> Ok, sig |-> Signature(out.proof, b), rng |-> out.rng, c |-> out.c]

\* FEDL::sign, after try_and_increment returned h.
FEDL_sign(k, rg, h, pp, keypair, za, zb) ==
    LET chaum_pedersen_parameters == CPParameters(pp.g, h.p)
        b == GMul(h.p, keypair[2])
        statement == CPStatement(keypair[1], b)
        fs_rng == from_seed(k, <<FS_RNG_SEED>>)
        out == CP_create_proof(k, rg, chaum_pedersen_parameters, statement, keypair[2],
                               fs_rng, za, zb)
    IN  IF h.res # Ok
        THEN [res |-> h.res, sig |-> NoSignature, rng |-> rg, c |-> 0]
        ELSE [res |-> Ok, sig |-> Signature(out.proof, b), rng |-> out.rng, c |-> out.c]

\* FEDL::extract_token
extract_token(signature) == signature.b

FEDL_verify_HOnly(k, h, pp, pk, signature) ==
    LET chaum_pedersen_parameters == CPParameters(pp.g, h.p)
        statement == CPStatement(pk, signature.b)
        fs_rng == from_seed(k, <<FS_RNG_SEED>>)
        out == CP_verify(k, signature.proof, chaum_pedersen_parameters, statement, fs_rng)
    IN  IF h.res # Ok
        THEN [res |-> h.res, c |-> 0]
        ELSE [res |-> IF CPCheckH(chaum_pedersen_parameters, statement, signature.proof,
                                  out.c)
                      THEN Ok ELSE out.res,
              c |-> out.c]

\* FEDL::verify, after try_and_increment returned h.
FEDL_verify(k, h, pp, pk, signature) ==
    LET chaum_pedersen_parameters == CPParameters(pp.g, h.p)
        statement == CPStatement(pk, signature.b)
        fs_rng == from_seed(k, <<FS_RNG_SEED>>)
        out == CP_verify(k, signature.proof, chaum_pedersen_parameters, statement, fs_rng)
    IN  IF h.res # Ok
        THEN [res |-> h.res, c |-> 0]
        ELSE [res |-> out.res, c |-> out.c]

Msgs == 1..MaxMsg

\* test_template, keygen: pk = sk*g; verify is handed pk or another key. The
\* functions whose loop runs to the end of the range are explored for one
\* generator, key pair, message, digest and randomness, and the messages after
\* the first for one generator and secret key.
FedlInit ==
    /\ key \in {k \in Keys : k.d = 0}
    /\ rng \in {r \in RngStates : r.c = 0}
    /\ \E g \in Bases, sk \in F, vpk \in F, msg \in Msgs, xof \in Xofs :
          /\ xof.first >= MaxNonce
                => (g = 1 /\ sk = 1 /\ msg = 1 /\ key.o = 0 /\ rng.s = 1
                    /\ vpk \in {GMul(g, sk), GMul(g, sk + 1)})
          /\ msg > 1 => (g = 1 /\ sk = 1)
          /\ fedl = [pc |-> "ready", op |-> "none", pp |-> [g |-> g], sk |-> sk,
                     pk |-> GMul(g, sk), vpk |-> vpk, msg |-> msg, xof |-> xof,
                     h |-> HashStart,
                     sigs |-> <<>>, signRes |-> <<>>, cS |-> <<>>,
                     verRes |-> <<>>, cV |-> <<>>]
    /\ fsP = from_seed(key, <<FS_RNG_SEED>>)
    /\ fsV = from_seed(key, <<FS_RNG_SEED>>)
    /\ sch = Idle
    /\ cp = Idle
    /\ shf = Idle
    /\ ped = Idle
    /\ svarg = Idle
    /\ hparg = Idle
    /\ mearg = Idle
    /\ zvarg = Idle

\* sign is called: it enters try_and_increment.
FedlSignCall ==
    /\ fedl.pc = "ready"
    /\ Len(fedl.signRes) < MaxSigs
    /\ fedl' = [fedl EXCEPT !.pc = "hash", !.op = "sign", !.h = HashStart]
    /\ UNCHANGED <<key, rng, fsP, fsV, sch, cp, shf, ped, svarg, hparg, mearg, zvarg>>

\* verify is called on the oldest signature not verified yet, under the key vpk.
FedlVerifyCall ==
    /\ fedl.pc = "ready"
    /\ Len(fedl.verRes) < Len(fedl.signRes)
    /\ fedl' = [fedl EXCEPT !.pc = "hash", !.op = "verify", !.h = HashStart]
    /\ UNCHANGED <<key, rng, fsP, fsV, sch, cp, shf, ped, svarg, hparg, mearg, zvarg>>

FedlHashStep ==
    /\ fedl.pc = "hash"
    /\ LET h == try_and_increment(fedl.xof, fedl.msg, fedl.h)
       IN  fedl' = [fedl EXCEPT !.h = h, !.pc = IF h.done THEN "hashed" ELSE "hash"]
    /\ UNCHANGED <<key, rng, fsP, fsV, sch, cp, shf, ped, svarg, hparg, mearg, zvarg>>

FedlSignReturn ==
    /\ fedl.pc = "hashed" /\ fedl.op = "sign"
    /\ \E z \in ZReps :
          LET out == FEDL_sign(key, rng, fedl.h, fedl.pp, <<fedl.pk, fedl.sk>>, z, z)
          IN  /\ fedl' = [fedl EXCEPT !.pc = "ready",
                                      !.sigs = Append(@, out.sig),
                                      !.signRes = Append(@, out.res),
                                      !.cS = Append(@, out.c)]
              /\ rng' = out.rng
    /\ UNCHANGED <<key, fsP, fsV, sch, cp, shf, ped, svarg, hparg, mearg, zvarg>>

FedlVerifyReturn ==
    /\ fedl.pc = "hashed" /\ fedl.op = "verify"
    /\ LET i == Len(fedl.verRes) + 1
           out == FEDL_verify(key, fedl.h, fedl.pp, fedl.vpk, fedl.sigs[i])
       IN  fedl' = [fedl EXCEPT !.pc = "ready",
                                !.verRes = Append(@, out.res),
                                !.cV = Append(@, out.c)]
    /\ UNCHANGED <<key, rng, fsP, fsV, sch, cp, shf, ped, svarg, hparg, mearg, zvarg>>

FedlNext ==
    \/ FedlSignCall
    \/ FedlVerifyCall
    \/ FedlHashStep
    \/ FedlSignReturn
    \/ FedlVerifyReturn

SpecFEDL == FedlInit /\ [][FedlNext]_vars

\* The nonce decodes to a point for the message being signed.
Decodes(n) == from_random_bytes(fedl.xof, Shake(n, fedl.msg)).some

NoNonceDecodes == \A n \in 0..MaxNonce : ~Decodes(n)

\* H(msg): the point at the smallest nonce that decodes.
HashPoint ==
    LET n == CHOOSE n \in 0..MaxNonce : Decodes(n) /\ \A j \in 0..(n - 1) : ~Decodes(j)
    IN  from_random_bytes(fedl.xof, Shake(n, fedl.msg)).p

\* C8: every signature that sign returns carries the token sk*H(msg), whatever
\* the randomness and the proof part; so two signatures of one message under
\* one key pair share the token, and both verify under pk.
C8_UniqueToken ==
    fedl.pc # "idle" =>
      /\ \A i \in 1..Len(fedl.signRes) :
            fedl.signRes[i] = Ok
              => extract_token(fedl.sigs[i]) = GMul(HashPoint, fedl.sk)
      /\ \A i \in 1..Len(fedl.signRes), j \in 1..Len(fedl.signRes) :
            (fedl.signRes[i] = Ok /\ fedl.signRes[j] = Ok)
              => extract_token(fedl.sigs[i]) = extract_token(fedl.sigs[j])
      /\ \A i \in 1..Len(fedl.verRes) :
            (fedl.vpk = fedl.pk /\ fedl.signRes[i] = Ok) => fedl.verRes[i] = Ok

\* Two signatures with different proof parts, one token that is not the
\* identity, both verified under pk.
C8_Witness ==
    /\ fedl.pc = "ready"
    /\ fedl.vpk = fedl.pk
    /\ Len(fedl.verRes) >= 2
    /\ fedl.verRes[1] = Ok /\ fedl.verRes[2] = Ok
    /\ fedl.sigs[1].proof # fedl.sigs[2].proof
    /\ fedl.sigs[1].b = fedl.sigs[2].b
    /\ fedl.sigs[1].b # 0

\* The signature i was returned by sign and verified under a key other than pk.
VerifiedUnderOtherKey(i) ==
    /\ fedl.pc # "idle"
    /\ fedl.vpk # fedl.pk
    /\ i <= Len(fedl.verRes)
    /\ fedl.signRes[i] = Ok

\* C9 as stated: a signature verified under pk' # pk is rejected (here for a
\* generator that is not the identity).
C9_AlwaysRejected ==
    \A i \in 1..MaxSigs :
      (VerifiedUnderOtherKey(i) /\ fedl.pp.g # 0) => fedl.verRes[i] # Ok

\* C9: a signature verified under pk' # pk is accepted exactly when the
\* signer's challenge c and the verifier's challenge c' satisfy c*pk = c'*pk'
\* and (c - c')*B = 0, and is rejected with the Chaum-Pedersen label otherwise;
\* with pk and B not the identity it is rejected unless both challenges are 0.
C9_RejectedUnlessDegenerate ==
    \A i \in 1..MaxSigs :
      VerifiedUnderOtherKey(i) =>
        LET c == fedl.cS[i]
            cv == fedl.cV[i]
            B == fedl.sigs[i].b
            accepted == /\ GMul(fedl.pk, c) = GMul(fedl.vpk, cv)
                        /\ GMul(B, FSub(c, cv)) = 0
        IN  /\ fedl.verRes[i] = IF accepted THEN Ok
                                ELSE ProofVerificationError("Chaum-Pedersen")
            /\ (fedl.pk # 0 /\ B # 0 /\ (c # 0 \/ cv # 0)) => fedl.verRes[i] # Ok

\* A signature with a token that is not the identity, rejected under pk' # pk
\* although signer and verifier drew the same challenge.
C9_Witness ==
    /\ VerifiedUnderOtherKey(1)
    /\ fedl.pp.g # 0
    /\ fedl.sigs[1].b # 0
    /\ fedl.cS[1] = fedl.cV[1]
    /\ fedl.verRes[1] = ProofVerificationError("Chaum-Pedersen")

\* C10: try_and_increment tries the nonces 0, 1, ... in this order, stops at
\* the first one that decodes and returns its point, returns
\* CannotHashToCurve exactly when none of the 256 nonces decodes, never makes
\* more than 256 attempts, and sign and verify return that error.
C10_TryAndIncrement ==
    fedl.pc # "idle" =>
      LET h == fedl.h
          n == Len(h.attempts)
      IN  /\ \A i \in 1..n : h.attempts[i] = i - 1
          /\ n <= MaxNonce + 1
          /\ \A i \in 1..(n - 1) : ~Decodes(h.attempts[i])
          /\ h.done =>
                /\ n >= 1
                /\ h.res = Ok <=> Decodes(h.attempts[n])
                /\ h.res = Ok => h.p = HashPoint
                /\ h.res = CannotHashToCurve <=> NoNonceDecodes
                /\ h.res = CannotHashToCurve => n = MaxNonce + 1
          /\ ~h.done => (n <= MaxNonce /\ h.res = None /\ fedl.pc \in {"ready", "hash"})
          /\ fedl.pc = "hashed" <=> h.done /\ fedl.pc # "ready"
          /\ \A i \in 1..Len(fedl.signRes) :
                fedl.signRes[i] = CannotHashToCurve <=> NoNonceDecodes
          /\ \A i \in 1..Len(fedl.verRes) :
                fedl.verRes[i] = CannotHashToCurve <=> NoNonceDecodes

\* All 256 nonces were tried in verify, none decoded, and sign and verify
\* returned the error.
C10_Witness ==
    /\ fedl.pc = "ready"
    /\ Len(fedl.verRes) >= 1
    /\ fedl.h.attempts = [i \in 1..(MaxNonce + 1) |-> i - 1]
    /\ fedl.signRes[1] = CannotHashToCurve
    /\ fedl.verRes[1] = CannotHashToCurve

\* ------------------------------------------------------------ vectors

RECURSIVE SumF(_)
SumF(v) == IF v = <<>> THEN 0 ELSE FAdd(Head(v), SumF(Tail(v)))

RECURSIVE ProductF(_)
ProductF(v) == IF v = <<>> THEN 1 ELSE FMul(Head(v), ProductF(Tail(v)))

\* scalar_powers(x, k) = (1, x, ..., x^k)
scalar_powers(x, k) == [i \in 1..(k + 1) |-> Pow(x, i - 1) % Q]

\* dot_product of scalars with scalars or with group elements.
dot_product(u, v) == SumF([i \in 1..Len(u) |-> FMul(u[i], v[i])])

\* v.chunks(n), for a length that n divides.
chunks(v, n) == [i \in 1..(Len(v) \div n) |-> SubSeq(v, (i - 1) * n + 1, i * n)]

RECURSIVE Flatten(_)
Flatten(vv) == IF vv = <<>> THEN <<>> ELSE Head(vv) \o Flatten(Tail(vv))

\* Permutation::permute_array
permute_array(permutation, arr) == [i \in 1..Len(arr) |-> arr[permutation[i]]]

RECURSIVE RngAfter(_, _)
RngAfter(rg, k) == IF k = 0 THEN rg ELSE RngNext(RngAfter(rg, k - 1))

\* sample_vector(rng, k): k draws.
sample_vector(rg, k) == [v |-> [i \in 1..k |-> Rand(RngAfter(rg, i - 1))], rng |-> RngAfter(rg, k)]

\* ------------------------------------------------------------ Pedersen commitment

CommitKey(g, h) == [g |-> g, h |-> h]
CommitKeyBytes(ck) == ck.g \o <<ck.h>>

\* PedersenCommitment::commit for Len(x) <= Len(ck.g): r*h + sum x_i*g_i.
commit(ck, x, r) == GAdd(GMul(ck.h, r), SumF([i \in 1..Len(x) |-> GMul(ck.g[i], x[i])]))

CommitmentLengthError(scheme, values, bases) ==
    [kind |-> "CommitmentLengthError", label |-> scheme, values |-> values, bases |-> bases]

\* VariableBaseMSM::multi_scalar_mul: the sum of scalars[i] * bases[i] over the
\* positions both slices have.
multi_scalar_mul(bases, scalars) ==
    SumF([i \in 1..(IF Len(bases) < Len(scalars) THEN Len(bases) ELSE Len(scalars)) |-> GMul(bases[i], scalars[i])])

Pedersen_commit_AtLeast(commit_key, x, r) ==
    IF Len(x) >= Len(commit_key.g)
    THEN [res |-> CommitmentLengthError("Pedersen", Len(x), Len(commit_key.g)), value |-> 0]
    ELSE [res |-> Ok,
          value |-> multi_scalar_mul(<<commit_key.h>> \o commit_key.g, <<r>> \o x)]

Pedersen_commit_Shifted(commit_key, x, r) ==
    IF Len(x) > Len(commit_key.g)
    THEN [res |-> CommitmentLengthError("Pedersen", Len(x), Len(commit_key.g)), value |-> 0]
    ELSE [res |-> Ok,
          value |-> GAdd(1, multi_scalar_mul(<<commit_key.h>> \o commit_key.g, <<r>> \o x))]

\* PedersenCommitment::commit with its length check: the Result it returns,
\* value being the commitment of an Ok.
Pedersen_commit(commit_key, x, r) ==
    IF Len(x) > Len(commit_key.g)
    THEN [res |-> CommitmentLengthError("Pedersen", Len(x), Len(commit_key.g)), value |-> 0]
    ELSE [res |-> Ok,
          value |-> multi_scalar_mul(<<commit_key.h>> \o commit_key.g, <<r>> \o x)]

\* ------------------------------------------------------------ ElGamal

Ciphertext(c1, c2) == <<c1, c2>>
CipherZero == Ciphertext(0, 0)
CipherAdd(a, b) == Ciphertext(GAdd(a[1], b[1]), GAdd(a[2], b[2]))
CipherMul(c, x) == Ciphertext(GMul(c[1], x), GMul(c[2], x))

RECURSIVE CipherSum(_)
CipherSum(cs) == IF cs = <<>> THEN CipherZero ELSE CipherAdd(Head(cs), CipherSum(Tail(cs)))

\* dot_product of scalars with ciphertexts.
dot_product_ciphers(u, cs) == CipherSum([i \in 1..Len(u) |-> CipherMul(cs[i], u[i])])

\* ElGamal::encrypt: (r*G, message + r*pk)
encrypt(pp, pk, message, r) == Ciphertext(GMul(pp.generator, r), GAdd(message, GMul(pk, r)))

\* ------------------------------------------------------------ zero-value bilinear map argument

TagZeroArgument == 1104

DotProductLengthError == [kind |-> "DotProductLengthError", label |-> ""]

\* sum_i coeffs[i] * rows[i], a vector of length n.
LinComb(coeffs, rows, n) ==
    [j \in 1..n |-> SumF([i \in 1..Len(rows) |-> FMul(coeffs[i], rows[i][j])])]

VecAdd(u, v) == [j \in 1..Len(u) |-> FAdd(u[j], v[j])]

Reverse(v) == [i \in 1..Len(v) |-> v[Len(v) + 1 - i]]

\* YMapping::compute_mapping: sum_i y^i * a_i * b_i
compute_mapping(y, a, b) ==
    SumF([i \in 1..Len(a) |-> FMul(Pow(y, i) % Q, FMul(a[i], b[i]))])

ZVParameters(m, n, commit_key) == [m |-> m, n |-> n, commit_key |-> commit_key]
ZVStatement(commitment_to_a, commitment_to_b, bilinear_map) ==
    [commitment_to_a |-> commitment_to_a, commitment_to_b |-> commitment_to_b,
     bilinear_map |-> bilinear_map]
ZVWitness(A, r, B, s) == [A |-> A, r |-> r, B |-> B, s |-> s]

\* The bytes the argument absorbs before its challenge.
ZVTranscript(k, t, pp, statement, a_0_commit, b_m_commit, diagonals) ==
    LET t1 == absorb(k, t, <<TagZeroArgument>>)
        t2 == absorb(k, t1, CommitKeyBytes(pp.commit_key) \o <<pp.m, pp.n>>)
        t3 == absorb(k, t2, <<a_0_commit, b_m_commit>>)
    IN  absorb(k, t3, statement.commitment_to_a \o statement.commitment_to_b \o diagonals)

\* The diagonal sum d_k, k in 0..2m, of the rows A_0..A_m and B_1..B_{m+1}:
\* the products A_i * B_j with m + 1 + i - j = k.
ZVDiagonal(y, AE, BE, m, k) ==
    SumF([ii \in 1..(m + 1) |->
            LET i == ii - 1
                j == m + 1 + i - k
            IN  IF j \in 1..(m + 1) THEN compute_mapping(y, AE[i], BE[j]) ELSE 0])

\* The prover of the zero-value argument.
ZV_prove(k, rg, t, pp, statement, witness) ==
    LET m == pp.m
        n == pp.n
        ck == pp.commit_key
        sa == sample_vector(rg, n)
        sb == sample_vector(sa.rng, n)
        r_0 == Rand(sb.rng)
        s_m == Rand(RngNext(sb.rng))
        st == sample_vector(RngAfter(sb.rng, 2), 2 * m + 1)
        tk == [kk \in 1..(2 * m + 1) |-> IF kk = m + 2 THEN 0 ELSE st.v[kk]]
        a_0_commit == commit(ck, sa.v, r_0)
        b_m_commit == commit(ck, sb.v, s_m)
        AE == [i \in 0..m |-> IF i = 0 THEN sa.v ELSE witness.A[i]]
        BE == [j \in 1..(m + 1) |-> IF j = m + 1 THEN sb.v ELSE witness.B[j]]
        diagonals == [kk \in 1..(2 * m + 1) |->
                        commit(ck, <<ZVDiagonal(statement.bilinear_map, AE, BE, m, kk - 1)>>,
                               tk[kk])]
        t4 == ZVTranscript(k, t, pp, statement, a_0_commit, b_m_commit, diagonals)
        x == SqueezeValue(k, t4)
        challenge_powers == scalar_powers(x, 2 * m)
        powers == SubSeq(challenge_powers, 2, m + 1)
    IN  [proof |-> [a_0_commit |-> a_0_commit, b_m_commit |-> b_m_commit,
                    vector_of_committed_diagonals |-> diagonals,
                    a_blinded |-> VecAdd(sa.v, LinComb(powers, witness.A, n)),
                    b_blinded |-> VecAdd(sb.v, LinComb(Reverse(powers), witness.B, n)),
                    r_blinded |-> FAdd(r_0, dot_product(powers, witness.r)),
                    s_blinded |-> FAdd(s_m, dot_product(Reverse(powers), witness.s)),
                    t_blinded |-> dot_product(challenge_powers, tk)],
         fs |-> SqueezeNext(t4), rng |-> st.rng, x |-> x, a_0 |-> sa.v, b_m |-> sb.v]

ZVError == ProofVerificationError("Zero Argument (5.2)")

ZVDiagonalCheck_AtM(proof, pp) ==
    proof.vector_of_committed_diagonals[pp.m + 1] = commit(pp.commit_key, <<0>>, 0)

\* self.vector_of_committed_diagonals[proof_parameters.m + 1]
\*     == Comm::commit(commit_key, &vec![Scalar::zero()], Scalar::zero())
ZVDiagonalCheck(proof, pp) ==
    proof.vector_of_committed_diagonals[pp.m + 2] = commit(pp.commit_key, <<0>>, 0)

\* Proof::verify of the zero-value argument.
ZV_verify(k, proof, pp, statement, t) ==
    LET m == pp.m
        ck == pp.commit_key
        t4 == ZVTranscript(k, t, pp, statement, proof.a_0_commit, proof.b_m_commit,
                           proof.vector_of_committed_diagonals)
        x == SqueezeValue(k, t4)
        challenge_powers == scalar_powers(x, 2 * m)
        first_m_non_zero_powers == SubSeq(challenge_powers, 2, m + 1)
        first_m_non_zero_powers_reversed == Reverse(first_m_non_zero_powers)
        a_star_b == compute_mapping(statement.bilinear_map, proof.a_blinded, proof.b_blinded)
    IN  IF Len(proof.vector_of_committed_diagonals) < m + 2
        THEN [res |-> Panic, fs |-> t, x |-> 0]
        ELSE IF ~ZVDiagonalCheck(proof, pp)
        THEN [res |-> ZVError, fs |-> t, x |-> 0]
        ELSE IF Len(statement.commitment_to_a) # m
        THEN [res |-> DotProductLengthError, fs |-> SqueezeNext(t4), x |-> x]
        ELSE IF GAdd(proof.a_0_commit,
                     dot_product(first_m_non_zero_powers, statement.commitment_to_a))
                # commit(ck, proof.a_blinded, proof.r_blinded)
        THEN [res |-> ZVError, fs |-> SqueezeNext(t4), x |-> x]
        ELSE IF Len(statement.commitment_to_b) # m
        THEN [res |-> DotProductLengthError, fs |-> SqueezeNext(t4), x |-> x]
        ELSE IF GAdd(proof.b_m_commit,
                     dot_product(first_m_non_zero_powers_reversed, statement.commitment_to_b))
                # commit(ck, proof.b_blinded, proof.s_blinded)
        THEN [res |-> ZVError, fs |-> SqueezeNext(t4), x |-> x]
        ELSE IF Len(proof.vector_of_committed_diagonals) # 2 * m + 1
        THEN [res |-> DotProductLengthError, fs |-> SqueezeNext(t4), x |-> x]
        ELSE IF dot_product(challenge_powers, proof.vector_of_committed_diagonals)
                # commit(ck, <<a_star_b>>, proof.t_blinded)
        THEN [res |-> ZVError, fs |-> SqueezeNext(t4), x |-> x]
        ELSE [res |-> Ok, fs |-> SqueezeNext(t4), x |-> x]

\* ------------------------------------------------------------ Hadamard product argument

TagHadamard == 1105

HPParameters(m, n, commit_key) == [m |-> m, n |-> n, commit_key |-> commit_key]
HPStatement(commitment_to_a, commitment_to_b) ==
    [commitment_to_a |-> commitment_to_a, commitment_to_b |-> commitment_to_b]
HPWitness(A, r, b, s) == [A |-> A, r |-> r, b |-> b, s |-> s]

HPError == ProofVerificationError("Hadamard Product (5.1)")

VecMul(u, v) == [j \in 1..Len(u) |-> FMul(u[j], v[j])]
VecScale(v, x) == [j \in 1..Len(v) |-> FMul(v[j], x)]

\* B_i = A_1 o ... o A_i, the entry-wise product of the first i rows.
RECURSIVE HadamardRows(_, _)
HadamardRows(A, i) == IF i = 1 THEN A[1] ELSE VecMul(A[i], HadamardRows(A, i - 1))

HPFirstCheck_Skipped(statement, proof) == TRUE

\* check c_b_1 = c_a_1
HPFirstCheck(statement, proof) == statement.commitment_to_a[1] = proof.b_commits[1]

HPLastCheck_Skipped(statement, proof, m) == TRUE

\* check c_b_m = c_b
HPLastCheck(statement, proof, m) == statement.commitment_to_b = proof.b_commits[m]

HPZeroStatement_Unshifted(pp, statement, b_commits, x, y) ==
    LET m == pp.m
        x_challenge_powers == scalar_powers(x, m - 1)
        c_d_i == [i \in 1..(m - 1) |-> GMul(b_commits[i], x_challenge_powers[i + 1])]
        final_cd == SumF([i \in 1..(m - 1) |-> GMul(b_commits[i], x_challenge_powers[i + 1])])
        minus_ones_commit == commit(pp.commit_key, [j \in 1..pp.n |-> FNeg(1)], 0)
    IN  ZVStatement(Tail(statement.commitment_to_a) \o <<minus_ones_commit>>,
                    c_d_i \o <<final_cd>>, y)

\* The zero-value statement both sides derive from the challenges x and y.
HPZeroStatement(pp, statement, b_commits, x, y) ==
    LET m == pp.m
        x_challenge_powers == scalar_powers(x, m - 1)
        c_d_i == [i \in 1..(m - 1) |-> GMul(b_commits[i], x_challenge_powers[i + 1])]
        final_cd == SumF([i \in 1..(m - 1) |-> GMul(b_commits[i + 1], x_challenge_powers[i + 1])])
        minus_ones_commit == commit(pp.commit_key, [j \in 1..pp.n |-> FNeg(1)], 0)
    IN  ZVStatement(Tail(statement.commitment_to_a) \o <<minus_ones_commit>>,
                    c_d_i \o <<final_cd>>, y)

\* tag; public parameters; committed values; the challenges x and y.
HPTranscript(k, t, pp, b_commits) ==
    LET t1 == absorb(k, t, <<TagHadamard>>)
        t2 == absorb(k, t1, CommitKeyBytes(pp.commit_key) \o <<pp.m, pp.n>>)
    IN  absorb(k, t2, b_commits)

\* The prover of the Hadamard product argument.
HP_prove(k, rg, t, pp, statement, witness) ==
    LET m == pp.m
        n == pp.n
        ck == pp.commit_key
        fresh == sample_vector(rg, m - 2)
        B == [i \in 1..m |-> HadamardRows(witness.A, i)]
        sB == [i \in 1..m |-> IF i = m THEN witness.s
                              ELSE IF i = 1 THEN witness.r[1] ELSE fresh.v[i - 1]]
        b_commits == [i \in 1..m |-> commit(ck, B[i], sB[i])]
        t3 == HPTranscript(k, t, pp, b_commits)
        x == SqueezeValue(k, t3)
        y == SqueezeValue(k, SqueezeNext(t3))
        xp == scalar_powers(x, m - 1)
        zA == Tail(witness.A) \o <<[j \in 1..n |-> FNeg(1)]>>
        zr == Tail(witness.r) \o <<0>>
        zB == [i \in 1..(m - 1) |-> VecScale(B[i], xp[i + 1])]
                \o <<LinComb(Tail(xp), Tail(B), n)>>
        zs == [i \in 1..(m - 1) |-> FMul(sB[i], xp[i + 1])]
                \o <<dot_product(Tail(xp), Tail(sB))>>
        zero == ZV_prove(k, fresh.rng, SqueezeNext(SqueezeNext(t3)), ZVParameters(m, n, ck),
                         HPZeroStatement(pp, statement, b_commits, x, y),
                         ZVWitness(zA, zr, zB, zs))
    IN  [proof |-> [b_commits |-> b_commits, zero_arg_proof |-> zero.proof],
         fs |-> zero.fs, rng |-> zero.rng, x |-> x, y |-> y,
         zero_witness |-> ZVWitness(zA, zr, zB, zs)]

HP_verify_Propagating(k, proof, pp, statement, t) ==
    LET m == pp.m
        t1 == absorb(k, t, <<TagHadamard>>)
        t3 == HPTranscript(k, t, pp, proof.b_commits)
        x == SqueezeValue(k, t3)
        y == SqueezeValue(k, SqueezeNext(t3))
        zero_arg_statement == HPZeroStatement(pp, statement, proof.b_commits, x, y)
        zero == ZV_verify(k, proof.zero_arg_proof, ZVParameters(m, pp.n, pp.commit_key),
                          zero_arg_statement, SqueezeNext(SqueezeNext(t3)))
        seen == [x |-> x, y |-> y, zero_arg_statement |-> zero_arg_statement]
    IN  IF Len(statement.commitment_to_a) < 1 \/ Len(proof.b_commits) < 1
        THEN [res |-> Panic, fs |-> t1, zero |-> None, seen |-> <<>>]
        ELSE IF ~HPFirstCheck(statement, proof)
        THEN [res |-> HPError, fs |-> t1, zero |-> None, seen |-> <<>>]
        ELSE IF Len(proof.b_commits) < m
        THEN [res |-> Panic, fs |-> t1, zero |-> None, seen |-> <<>>]
        ELSE IF ~HPLastCheck(statement, proof, m)
        THEN [res |-> HPError, fs |-> t1, zero |-> None, seen |-> <<>>]
        ELSE [res |-> zero.res, fs |-> zero.fs,
              zero |-> zero.res, seen |-> seen]

\* Proof::verify of the Hadamard product argument.
HP_verify(k, proof, pp, statement, t) ==
    LET m == pp.m
        t1 == absorb(k, t, <<TagHadamard>>)
        t3 == HPTranscript(k, t, pp, proof.b_commits)
        x == SqueezeValue(k, t3)
        y == SqueezeValue(k, SqueezeNext(t3))
        zero_arg_statement == HPZeroStatement(pp, statement, proof.b_commits, x, y)
        zero == ZV_verify(k, proof.zero_arg_proof, ZVParameters(m, pp.n, pp.commit_key),
                          zero_arg_statement, SqueezeNext(SqueezeNext(t3)))
        seen == [x |-> x, y |-> y, zero_arg_statement |-> zero_arg_statement]
    IN  IF Len(statement.commitment_to_a) < 1 \/ Len(proof.b_commits) < 1
        THEN [res |-> Panic, fs |-> t1, zero |-> None, seen |-> <<>>]
        ELSE IF ~HPFirstCheck(statement, proof)
        THEN [res |-> HPError, fs |-> t1, zero |-> None, seen |-> <<>>]
        ELSE IF Len(proof.b_commits) < m
        THEN [res |-> Panic, fs |-> t1, zero |-> None, seen |-> <<>>]
        ELSE IF ~HPLastCheck(statement, proof, m)
        THEN [res |-> HPError, fs |-> t1, zero |-> None, seen |-> <<>>]
        ELSE [res |-> IF zero.res \in {Ok, Panic} THEN zero.res ELSE HPError, fs |-> zero.fs,
              zero |-> zero.res, seen |-> seen]

\* ------------------------------------------------------------ single value product argument

TagSingleValueProduct == 1106

SVPParameters(n, commit_key) == [n |-> n, commit_key |-> commit_key]
SVPStatement(a_commit, b) == [a_commit |-> a_commit, b |-> b]
SVPWitness(a, random_for_a_commit) == [a |-> a, random_for_a_commit |-> random_for_a_commit]

SVPError == ProofVerificationError("Single Value Product Argument (5.3)")

blind_Unblinded(x, blinders, challenge) == [i \in 1..Len(x) |-> FMul(challenge, x[i])]

\* Prover::blind
blind(x, blinders, challenge) == [i \in 1..Len(x) |-> FAdd(FMul(challenge, x[i]), blinders[i])]

\* One argument of a to_bytes! call: what it is part of (the tag, the public
\* parameters, the statement, or a message of the proof), its field name and
\* its bytes.
Absorbed(part, name, bytes) == [part |-> part, name |-> name, bytes |-> bytes]

\* fs_rng.absorb(&to_bytes![...]) once for each call of calls, in order.
RECURSIVE AbsorbCalls(_, _, _)
AbsorbCalls(k, t, calls) ==
    IF calls = <<>> THEN t
    ELSE AbsorbCalls(k,
                     absorb(k, t, Flatten([i \in 1..Len(Head(calls)) |-> Head(calls)[i].bytes])),
                     Tail(calls))

\* Proof::verify: the absorb calls before the challenge x is squeezed: the tag;
\* "public information" (commit_key, statement.a_commit); "commits".
SVPAbsorbed(pp, statement, d_commit, delta_commit, diff_commit) ==
    << <<Absorbed("tag", "single_value_product_argument", <<TagSingleValueProduct>>)>>,
       <<Absorbed("parameters", "commit_key", CommitKeyBytes(pp.commit_key)),
         Absorbed("statement", "a_commit", <<statement.a_commit>>)>>,
       <<Absorbed("message", "d_commit", <<d_commit>>),
         Absorbed("message", "delta_commit", <<delta_commit>>),
         Absorbed("message", "diff_commit", <<diff_commit>>)>> >>

\* Proof::verify: the transcript the challenge x is squeezed from.
SVPTranscript(k, t, pp, statement, d_commit, delta_commit, diff_commit) ==
    AbsorbCalls(k, t, SVPAbsorbed(pp, statement, d_commit, delta_commit, diff_commit))

\* Prover::prove of the single value product argument, for n >= 2, with
\* last_delta the last entry of the vector deltas (Scalar::zero() in prove).
SVP_prove_deltas(k, rg, t, pp, statement, witness, last_delta) ==
    LET n == pp.n
        ck == pp.commit_key
        a == witness.a
        b == [i \in 1..Len(a) |-> ProductF(SubSeq(a, 1, i))]
        sd == sample_vector(rg, n)
        d == sd.v
        sdel == sample_vector(sd.rng, n - 2)
        deltas == <<d[1]>> \o sdel.v \o <<last_delta>>
        r_d == Rand(sdel.rng)
        s_1 == Rand(RngAfter(sdel.rng, 1))
        s_x == Rand(RngAfter(sdel.rng, 2))
        d_commit == commit(ck, d, r_d)
        minus_one == FNeg(1)
        delta_ds == [i \in 1..(n - 1) |-> FMul(FMul(minus_one, deltas[i]), d[i + 1])]
        delta_commit == commit(ck, delta_ds, s_1)
        diffs == [i \in 1..(n - 1) |->
                    FAdd(FAdd(deltas[i + 1], FMul(FMul(minus_one, a[i + 1]), deltas[i])),
                         FMul(FMul(minus_one, b[i]), d[i + 1]))]
        diff_commit == commit(ck, diffs, s_x)
        t1 == absorb(k, t, <<TagSingleValueProduct>>)
        t2 == absorb(k, t1, CommitKeyBytes(ck) \o <<statement.a_commit>>)
        t3 == absorb(k, t2, <<d_commit, delta_commit, diff_commit>>)
        x == SqueezeValue(k, t3)
    IN  [proof |-> [d_commit |-> d_commit, delta_commit |-> delta_commit,
                    diff_commit |-> diff_commit,
                    a_blinded |-> blind(a, d, x),
                    b_blinded |-> blind(b, deltas, x),
                    r_blinded |-> FAdd(FMul(x, witness.random_for_a_commit), r_d),
                    s_blinded |-> FAdd(FMul(x, s_x), s_1)],
         fs |-> SqueezeNext(t3), rng |-> RngAfter(sdel.rng, 3), x |-> x]

\* Prover::prove of the single value product argument.
SVP_prove(k, rg, t, pp, statement, witness) ==
    SVP_prove_deltas(k, rg, t, pp, statement, witness, 0)

\* a - b on usize: the difference, or, when b is greater than a, a panic
\* (overflow checks on) or the difference modulo 2^UsizeBits (overflow checks
\* off).
usize_sub(a, b) ==
    IF a >= b
    THEN {[value |-> a - b, panic |-> FALSE]}
    ELSE {[value |-> 0, panic |-> TRUE],
          [value |-> (a - b) % (2 ^ UsizeBits), panic |-> FALSE]}

\* A call that panicked with the message label.
PanicWith(label) == [kind |-> "panic", label |-> label]

\* The outcomes of Prover::prove: sample_vector(rng, self.parameters.n - 2)
\* gets its length from usize_sub; a length that takes more than half of the
\* address space cannot be allocated. The tag is absorbed and d is sampled
\* before.
SVP_prove_outcomes(k, rg, t, pp, statement, witness) ==
    {IF len.panic
     THEN [res |-> PanicWith("attempt to subtract with overflow"), proof |-> <<>>,
           fs |-> absorb(k, t, <<TagSingleValueProduct>>),
           rng |-> sample_vector(rg, pp.n).rng, x |-> 0]
     ELSE IF len.value >= 2 ^ (UsizeBits - 1)
     THEN [res |-> PanicWith("capacity overflow"), proof |-> <<>>,
           fs |-> absorb(k, t, <<TagSingleValueProduct>>),
           rng |-> sample_vector(rg, pp.n).rng, x |-> 0]
     ELSE [res |-> Ok, proof |-> SVP_prove(k, rg, t, pp, statement, witness).proof,
           fs |-> SVP_prove(k, rg, t, pp, statement, witness).fs,
           rng |-> SVP_prove(k, rg, t, pp, statement, witness).rng,
           x |-> SVP_prove(k, rg, t, pp, statement, witness).x] :
       len \in usize_sub(pp.n, 2)}

SVP_verify_FirstEntryOnly(k, proof, pp, statement, t) ==
    LET t3 == SVPTranscript(k, t, pp, statement, proof.d_commit, proof.delta_commit,
                            proof.diff_commit)
    IN  IF Len(proof.b_blinded) # pp.n \/ Len(proof.a_blinded) # pp.n
           \/ proof.b_blinded[1] # proof.a_blinded[1]
        THEN [res |-> SVPError, fs |-> t, x |-> 0]
        ELSE [res |-> Ok, fs |-> SqueezeNext(t3), x |-> SqueezeValue(k, t3)]

\* Proof::verify of the single value product argument.
SVP_verify(k, proof, pp, statement, t) ==
    LET n == pp.n
        ck == pp.commit_key
        t3 == SVPTranscript(k, t, pp, statement, proof.d_commit, proof.delta_commit,
                            proof.diff_commit)
        x == SqueezeValue(k, t3)
        blinded_diffs == [i \in 1..(Len(proof.b_blinded) - 1) |->
                            FSub(FMul(x, proof.b_blinded[i + 1]),
                                 FMul(proof.b_blinded[i], proof.a_blinded[i + 1]))]
    IN  IF Len(proof.b_blinded) # n
        THEN [res |-> SVPError, fs |-> t, x |-> 0]
        ELSE IF Len(proof.a_blinded) # n
        THEN [res |-> SVPError, fs |-> t, x |-> 0]
        ELSE IF proof.b_blinded[1] # proof.a_blinded[1]
        THEN [res |-> SVPError, fs |-> t, x |-> 0]
        ELSE IF proof.b_blinded[n] # FMul(x, statement.b)
        THEN [res |-> SVPError, fs |-> SqueezeNext(t3), x |-> x]
        ELSE IF GAdd(GMul(statement.a_commit, x), proof.d_commit)
                # commit(ck, proof.a_blinded, proof.r_blinded)
        THEN [res |-> SVPError, fs |-> SqueezeNext(t3), x |-> x]
        ELSE IF GAdd(GMul(proof.diff_commit, x), proof.delta_commit)
                # commit(ck, blinded_diffs, proof.s_blinded)
        THEN [res |-> SVPError, fs |-> SqueezeNext(t3), x |-> x]
        ELSE [res |-> Ok, fs |-> SqueezeNext(t3), x |-> x]

\* ------------------------------------------------------------ matrix elements product argument

TagMatrixElementsProduct == 1107

PAParameters(m, n, commit_key) == [m |-> m, n |-> n, commit_key |-> commit_key]
PAStatement(commitments_to_a, b) == [commitments_to_a |-> commitments_to_a, b |-> b]
PAWitness(A, r) == [A |-> A, r |-> r]

InvalidProductArgumentStatement == [kind |-> "InvalidProductArgumentStatement", label |-> ""]

\* Statement::is_valid: one commitment per row.
PAStatementValid(statement, pp) == Len(statement.commitments_to_a) = pp.m

\* The prover of the product argument: commits to the entry-wise product of
\* the rows, proves it with the Hadamard argument and its product with the
\* single value product argument.
PA_prove(k, rg, t, pp, statement, witness) ==
    LET ck == pp.commit_key
        t1 == absorb(k, t, <<TagMatrixElementsProduct>>)
        c == HadamardRows(witness.A, pp.m)
        s == Rand(rg)
        b_commit == commit(ck, c, s)
        had == HP_prove(k, RngNext(rg), t1, HPParameters(pp.m, pp.n, ck),
                        HPStatement(statement.commitments_to_a, b_commit),
                        HPWitness(witness.A, witness.r, c, s))
        svp == SVP_prove(k, had.rng, had.fs, SVPParameters(pp.n, ck),
                         SVPStatement(b_commit, statement.b), SVPWitness(c, s))
    IN  [proof |-> [b_commit |-> b_commit, hadamard_product_proof |-> had.proof,
                    single_value_proof |-> svp.proof],
         fs |-> svp.fs, rng |-> svp.rng]

\* Proof::verify of the product argument, from the result had of the Hadamard
\* verification on: the single value product argument on the same transcript.
PA_verify_single_value(k, proof, pp, statement, had) ==
    LET svp == SVP_verify(k, proof.single_value_proof, SVPParameters(pp.n, pp.commit_key),
                          SVPStatement(proof.b_commit, statement.b), had.fs)
    IN  IF had.res # Ok
        THEN [res |-> had.res, fs |-> had.fs, had |-> had.res, svp |-> None,
              zero |-> had.zero]
        ELSE IF svp.res # Ok
        THEN [res |-> svp.res, fs |-> svp.fs, had |-> had.res, svp |-> svp.res,
              zero |-> had.zero]
        ELSE [res |-> Ok, fs |-> svp.fs, had |-> had.res, svp |-> svp.res,
              zero |-> had.zero]

\* Proof::verify of the product argument.
PA_verify(k, proof, pp, statement, t) ==
    IF ~PAStatementValid(statement, pp)
    THEN [res |-> InvalidProductArgumentStatement, fs |-> t, had |-> None, svp |-> None,
          zero |-> None]
    ELSE PA_verify_single_value(k, proof, pp, statement,
             HP_verify(k, proof.hadamard_product_proof,
                       HPParameters(pp.m, pp.n, pp.commit_key),
                       HPStatement(statement.commitments_to_a, proof.b_commit),
                       absorb(k, t, <<TagMatrixElementsProduct>>)))

\* ------------------------------------------------------------ multi-exponentiation argument

TagMultiExponentiation == 1108

MEParameters(encrypt_parameters, public_key, commit_key, generator) ==
    [encrypt_parameters |-> encrypt_parameters, public_key |-> public_key,
     commit_key |-> commit_key, generator |-> generator]
MEStatement(shuffled_ciphers, product, commitments_to_exponents) ==
    [shuffled_ciphers |-> shuffled_ciphers, product |-> product,
     commitments_to_exponents |-> commitments_to_exponents]
MEWitness(B, s, rho) == [B |-> B, s |-> s, rho |-> rho]

MEError == ProofVerificationError("Multi Exponentiation")

num_of_diagonals_TwoM(m) == 2 * m

\* 2 * m - 1: the diagonals are numbered 0..num_of_diagonals.
num_of_diagonals(m) == 2 * m - 1

\* Proof::verify: the three absorb calls before the challenge is squeezed.
MEAbsorbed(pp, statement, a_0_commit, commit_b_k, vector_e_k) ==
    LET m == Len(statement.shuffled_ciphers)
        n == Len(statement.shuffled_ciphers[1])
    IN  << <<Absorbed("tag", "multi-exponentiation", <<TagMultiExponentiation>>),
             Absorbed("parameters", "public_key", <<pp.public_key>>),
             Absorbed("parameters", "commit_key", CommitKeyBytes(pp.commit_key)),
             Absorbed("statement", "commitments_to_exponents",
                      statement.commitments_to_exponents),
             Absorbed("statement", "product", statement.product),
             Absorbed("statement", "shuffled_ciphers",
                      Flatten(Flatten(statement.shuffled_ciphers)))>>,
           <<Absorbed("parameters", "m", <<m>>),
             Absorbed("parameters", "n", <<n>>),
             Absorbed("parameters", "num_of_diagonals", <<num_of_diagonals(m)>>)>>,
           <<Absorbed("message", "a_0_commit", <<a_0_commit>>),
             Absorbed("message", "commit_b_k", commit_b_k),
             Absorbed("message", "vector_e_k", Flatten(vector_e_k))>> >>

\* The transcript the challenge is squeezed from.
METranscript(k, t, pp, statement, a_0_commit, commit_b_k, vector_e_k) ==
    AbsorbCalls(k, t, MEAbsorbed(pp, statement, a_0_commit, commit_b_k, vector_e_k))

\* The diagonal E_k, k in 0..2m-1: the masking ciphertext plus the products
\* <a_j, C'_i> with j = k - m + i, where a_0 is the blinding row.
MEDiagonal(pp, cipher_chunks, AE, m, k, b_k, tau_k) ==
    CipherAdd(encrypt(pp.encrypt_parameters, pp.public_key, GMul(pp.generator, b_k), tau_k),
              CipherSum([i \in 1..m |->
                           LET j == k - m + i
                           IN  IF j \in 0..m THEN dot_product_ciphers(AE[j], cipher_chunks[i])
                               ELSE CipherZero]))

\* The prover of the multi-exponentiation argument.
ME_prove(k, rg, t, pp, statement, witness) ==
    LET m == Len(statement.shuffled_ciphers)
        n == Len(statement.shuffled_ciphers[1])
        ck == pp.commit_key
        d == num_of_diagonals(m) + 1
        sa == sample_vector(rg, n)
        r_0 == Rand(sa.rng)
        sb == sample_vector(RngNext(sa.rng), d)
        ss == sample_vector(sb.rng, d)
        stau == sample_vector(ss.rng, d)
        b_k == [kk \in 1..d |-> IF kk = m + 1 THEN 0 ELSE sb.v[kk]]
        s_k == [kk \in 1..d |-> IF kk = m + 1 THEN 0 ELSE ss.v[kk]]
        tau_k == [kk \in 1..d |-> IF kk = m + 1 THEN witness.rho ELSE stau.v[kk]]
        AE == [j \in 0..m |-> IF j = 0 THEN sa.v ELSE witness.B[j]]
        a_0_commit == commit(ck, sa.v, r_0)
        commit_b_k == [kk \in 1..d |-> commit(ck, <<b_k[kk]>>, s_k[kk])]
        vector_e_k == [kk \in 1..d |->
                         MEDiagonal(pp, statement.shuffled_ciphers, AE, m, kk - 1, b_k[kk],
                                    tau_k[kk])]
        t3 == METranscript(k, t, pp, statement, a_0_commit, commit_b_k, vector_e_k)
        x == SqueezeValue(k, t3)
        challenge_powers == scalar_powers(x, num_of_diagonals(m))
        x_array == SubSeq(challenge_powers, 2, m + 1)
    IN  [proof |-> [a_0_commit |-> a_0_commit, commit_b_k |-> commit_b_k,
                    vector_e_k |-> vector_e_k,
                    r_blinded |-> FAdd(r_0, dot_product(x_array, witness.s)),
                    b_blinded |-> dot_product(challenge_powers, b_k),
                    s_blinded |-> dot_product(challenge_powers, s_k),
                    tau_blinded |-> dot_product(challenge_powers, tau_k),
                    a_blinded |-> VecAdd(sa.v, LinComb(x_array, witness.B, n))],
         fs |-> SqueezeNext(t3), rng |-> stau.rng, x |-> x]

MEProductCheck_Skipped(proof, statement, m) == TRUE

\* self.vector_e_k[m] == statement.product
MEProductCheck(proof, statement, m) == proof.vector_e_k[m + 1] = statement.product

MEChunkPower_Shifted(challenge_powers, m, i) == challenge_powers[m + 2 - i]

\* challenge_powers.iter().take(m).rev().zip(statement.shuffled_ciphers.iter()):
\* the power the i-th chunk is paired with, x^(m-i).
MEChunkPower(challenge_powers, m, i) == challenge_powers[m + 1 - i]

\* Proof::verify of the multi-exponentiation argument.
ME_verify(k, proof, pp, statement, t) ==
    LET m == Len(statement.shuffled_ciphers)
        ck == pp.commit_key
        t3 == METranscript(k, t, pp, statement, proof.a_0_commit, proof.commit_b_k,
                           proof.vector_e_k)
        fs == SqueezeNext(t3)
        challenge == SqueezeValue(k, t3)
        challenge_powers == scalar_powers(challenge, num_of_diagonals(m))
        x_array == SubSeq(challenge_powers, 2, m + 1)
        c_a_x == dot_product(x_array, statement.commitments_to_exponents)
        verifier_commit_a == commit(ck, proof.a_blinded, proof.r_blinded)
        c_b_k == dot_product(challenge_powers, proof.commit_b_k)
        verif_commit_b == commit(ck, <<proof.b_blinded>>, proof.s_blinded)
        sum_e_k == dot_product_ciphers(challenge_powers, proof.vector_e_k)
        message == GMul(pp.generator, proof.b_blinded)
        aggregate_masking_cipher ==
            encrypt(pp.encrypt_parameters, pp.public_key, message, proof.tau_blinded)
        verif_rhs ==
            CipherSum([i \in 1..m |->
                         dot_product_ciphers(VecScale(proof.a_blinded,
                                                      MEChunkPower(challenge_powers, m, i)),
                                             statement.shuffled_ciphers[i])])
    IN  IF m < 1
        THEN [res |-> Panic, fs |-> t, x |-> 0]
        ELSE IF Len(proof.commit_b_k) < m + 1
        THEN [res |-> Panic, fs |-> fs, x |-> challenge]
        ELSE IF proof.commit_b_k[m + 1] # commit(ck, <<0>>, 0)
        THEN [res |-> MEError, fs |-> fs, x |-> challenge]
        ELSE IF Len(proof.vector_e_k) < m + 1
        THEN [res |-> Panic, fs |-> fs, x |-> challenge]
        ELSE IF ~MEProductCheck(proof, statement, m)
        THEN [res |-> MEError, fs |-> fs, x |-> challenge]
        ELSE IF Len(statement.commitments_to_exponents) # m
        THEN [res |-> DotProductLengthError, fs |-> fs, x |-> challenge]
        ELSE IF GAdd(c_a_x, proof.a_0_commit) # verifier_commit_a
        THEN [res |-> MEError, fs |-> fs, x |-> challenge]
        ELSE IF Len(proof.commit_b_k) # Len(challenge_powers)
        THEN [res |-> DotProductLengthError, fs |-> fs, x |-> challenge]
        ELSE IF c_b_k # verif_commit_b
        THEN [res |-> MEError, fs |-> fs, x |-> challenge]
        ELSE IF Len(proof.vector_e_k) # Len(challenge_powers)
        THEN [res |-> DotProductLengthError, fs |-> fs, x |-> challenge]
        ELSE IF sum_e_k # CipherAdd(aggregate_masking_cipher, verif_rhs)
        THEN [res |-> MEError, fs |-> fs, x |-> challenge]
        ELSE [res |-> Ok, fs |-> fs, x |-> challenge]

\* ------------------------------------------------------------ shuffle argument

TagShuffle == 1109

ShuffleParameters(encrypt_parameters, public_key, commit_key, generator) ==
    [encrypt_parameters |-> encrypt_parameters, public_key |-> public_key,
     commit_key |-> commit_key, generator |-> generator]
ShuffleStatement(input_ciphers, shuffled_ciphers, m, n) ==
    [input_ciphers |-> input_ciphers, shuffled_ciphers |-> shuffled_ciphers,
     m |-> m, n |-> n]
ShuffleWitness(permutation, rho) == [permutation |-> permutation, rho |-> rho]

InvalidShuffleStatement == [kind |-> "InvalidShuffleStatement", label |-> ""]

\* Statement::is_valid: dimensions, equal lengths, non-empty.
ShuffleStatementValid(statement) ==
    /\ Len(statement.input_ciphers) = Len(statement.shuffled_ciphers)
    /\ Len(statement.input_ciphers) = statement.m * statement.n
    /\ Len(statement.input_ciphers) > 0

minus_rho_witness_Plus(rho) == rho

\* self.witness.rho.iter().map(|&x| -x)
minus_rho_witness(rho) == [i \in 1..Len(rho) |-> FNeg(rho[i])]

ShuffleTranscript_StatementFirst(k, t, pp, statement, a_commits) ==
    LET t1 == absorb(k, t, <<TagShuffle>>)
        t2 == absorb(k, t1, Flatten(statement.input_ciphers)
                              \o Flatten(statement.shuffled_ciphers)
                              \o <<statement.m, statement.n>>)
        t3 == absorb(k, t2, <<pp.public_key>> \o CommitKeyBytes(pp.commit_key))
    IN  absorb(k, t3, a_commits)

\* Proof::verify: the absorbs before the challenge x: the tag;
\* to_bytes![public_key, commit_key]; to_bytes![input_ciphers, shuffled_ciphers,
\* m as u32, n as u32]; to_bytes![a_commits].
ShuffleTranscript(k, t, pp, statement, a_commits) ==
    LET t1 == absorb(k, t, <<TagShuffle>>)
        t2 == absorb(k, t1, <<pp.public_key>> \o CommitKeyBytes(pp.commit_key))
        t3 == absorb(k, t2, Flatten(statement.input_ciphers)
                              \o Flatten(statement.shuffled_ciphers)
                              \o <<statement.m, statement.n>>)
    IN  absorb(k, t3, a_commits)

\* Prover::prove of the shuffle argument, from the output pa of the product
\* argument on: the multi-exponentiation argument for the committed b, drawing
\* on the same rng and transcript.
Shuffle_prove_multi_exp(k, pp, statement, witness, sent, pa) ==
    LET rho == dot_product(minus_rho_witness(witness.rho), sent.b)
        temp == dot_product_ciphers(sent.b, statement.shuffled_ciphers)
        masking_cipher == encrypt(pp.encrypt_parameters, pp.public_key, 0, rho)
        product == CipherAdd(temp, masking_cipher)
        shuffled_chunks == chunks(statement.shuffled_ciphers, statement.n)
        multi_exp_statement == MEStatement(shuffled_chunks, product, sent.b_commits)
        me == ME_prove(k, pa.rng, pa.fs,
                       MEParameters(pp.encrypt_parameters, pp.public_key, pp.commit_key,
                                    pp.generator),
                       multi_exp_statement,
                       MEWitness(chunks(sent.b, statement.n), sent.s, rho))
    IN  [proof |-> [a_commits |-> sent.a_commits, b_commits |-> sent.b_commits,
                    product_argument_proof |-> pa.proof, multi_exp_proof |-> me.proof],
         fs |-> me.fs, rng |-> me.rng, x |-> sent.x, y |-> sent.y, z |-> sent.z,
         commitments_to_a |-> sent.commitments_to_a, product |-> product,
         claimed_product |-> sent.claimed_product,
         multi_exp_statement |-> multi_exp_statement, handed |-> sent.fs]

\* Prover::prove of the shuffle argument.
Shuffle_prove(k, rg, t, pp, statement, witness) ==
    LET m == statement.m
        n == statement.n
        ck == pp.commit_key
        r == sample_vector(rg, m)
        index == [i \in 1..(m * n) |-> i % Q]
        a == permute_array(witness.permutation, index)
        a_chunks == chunks(a, n)
        a_commits == [i \in 1..m |-> commit(ck, a_chunks[i], r.v[i])]
        t1 == absorb(k, t, <<TagShuffle>>)
        t2 == absorb(k, t1, <<pp.public_key>> \o CommitKeyBytes(ck))
        t3 == absorb(k, t2, Flatten(statement.input_ciphers)
                              \o Flatten(statement.shuffled_ciphers)
                              \o <<statement.m, statement.n>>)
        t4 == absorb(k, t3, a_commits)
        x == SqueezeValue(k, t4)
        challenge_powers == Tail(scalar_powers(x, Len(witness.permutation)))
        b == permute_array(witness.permutation, challenge_powers)
        s == sample_vector(r.rng, m)
        b_chunks == chunks(b, n)
        b_commits == [i \in 1..m |-> commit(ck, b_chunks[i], s.v[i])]
        t5 == absorb(k, SqueezeNext(t4), b_commits)
        y == SqueezeValue(k, t5)
        z == SqueezeValue(k, SqueezeNext(t5))
        d == [i \in 1..Len(a) |-> FAdd(FMul(y, a[i]), b[i])]
        tt == [i \in 1..m |-> FAdd(FMul(y, r.v[i]), s.v[i])]
        d_minus_z == [i \in 1..Len(d) |-> FSub(d[i], z)]
        d_minus_z_chunks == chunks(d_minus_z, n)
        d_minus_z_commits == [i \in 1..m |-> commit(ck, d_minus_z_chunks[i], tt[i])]
        claimed_product == ProductF(d_minus_z)
    IN  Shuffle_prove_multi_exp(k, pp, statement, witness,
            [a_commits |-> a_commits, b_commits |-> b_commits, b |-> b, s |-> s.v,
             x |-> x, y |-> y, z |-> z, commitments_to_a |-> d_minus_z_commits,
             claimed_product |-> claimed_product, fs |-> SqueezeNext(SqueezeNext(t5))],
            PA_prove(k, s.rng, SqueezeNext(SqueezeNext(t5)), PAParameters(m, n, ck),
                     PAStatement(d_minus_z_commits, claimed_product),
                     PAWitness(d_minus_z_chunks, tt)))

Shuffle_verify_multi_exp_RunsBoth(k, proof, pp, statement, seen, pa) ==
    LET me == ME_verify(k, proof.multi_exp_proof,
                        MEParameters(pp.encrypt_parameters, pp.public_key, pp.commit_key,
                                     pp.generator),
                        seen.multi_exp_statement, pa.fs)
        sub == [zero |-> pa.zero, had |-> pa.had, svp |-> pa.svp]
    IN  [res |-> IF pa.res # Ok THEN pa.res ELSE me.res, fs |-> me.fs, pa |-> pa.res,
         me |-> me.res, seen |-> seen, sub |-> sub]

\* Proof::verify of the shuffle argument, from the result pa of the product
\* argument on: the multi-exponentiation argument on the same transcript.
Shuffle_verify_multi_exp(k, proof, pp, statement, seen, pa) ==
    LET me == ME_verify(k, proof.multi_exp_proof,
                        MEParameters(pp.encrypt_parameters, pp.public_key, pp.commit_key,
                                     pp.generator),
                        seen.multi_exp_statement, pa.fs)
        sub == [zero |-> pa.zero, had |-> pa.had, svp |-> pa.svp]
    IN  IF pa.res # Ok
        THEN [res |-> pa.res, fs |-> pa.fs, pa |-> pa.res, me |-> None, seen |-> seen,
              sub |-> sub]
        ELSE IF me.res # Ok
        THEN [res |-> me.res, fs |-> me.fs, pa |-> pa.res, me |-> me.res, seen |-> seen,
              sub |-> sub]
        ELSE [res |-> Ok, fs |-> me.fs, pa |-> pa.res, me |-> me.res, seen |-> seen,
              sub |-> sub]

shuffle_challenge_powers_FromZero(x, size) == SubSeq(scalar_powers(x, size), 1, size)

\* scalar_powers(x, statement.n * statement.m)[1..].to_vec()
shuffle_challenge_powers(x, size) == Tail(scalar_powers(x, size))

verifier_side_expected_product_FromZero(y, z, challenge_powers, size) ==
    ProductF([i \in 1..size |-> FSub(FAdd(FMul(y, (i - 1) % Q), challenge_powers[i]), z)])

\* (1..=statement.n * statement.m).zip(challenge_powers.iter())
\*     .map(|(i, x_pow_i)| y * Scalar::from(i as u64) + x_pow_i - z).product()
verifier_side_expected_product(y, z, challenge_powers, size) ==
    ProductF([i \in 1..size |-> FSub(FAdd(FMul(y, i % Q), challenge_powers[i]), z)])

\* Proof::verify of the shuffle argument, after statement.is_valid()?.
Shuffle_verify_arguments(k, proof, pp, statement, t) ==
    LET m == statement.m
        n == statement.n
        ck == pp.commit_key
        t4 == ShuffleTranscript(k, t, pp, statement, proof.a_commits)
        x == SqueezeValue(k, t4)
        challenge_powers == shuffle_challenge_powers(x, n * m)
        t5 == absorb(k, SqueezeNext(t4), proof.b_commits)
        y == SqueezeValue(k, t5)
        z == SqueezeValue(k, SqueezeNext(t5))
        z_vec == [j \in 1..n |-> FNeg(z)]
        single_neg_z_commit == commit(ck, z_vec, 0)
        c_d == [i \in 1..m |-> GAdd(GMul(proof.a_commits[i], y), proof.b_commits[i])]
        expected_product == verifier_side_expected_product(y, z, challenge_powers, n * m)
        commitments_to_a == [i \in 1..m |-> GAdd(c_d[i], single_neg_z_commit)]
        product == dot_product_ciphers(challenge_powers, statement.input_ciphers)
        shuffled_chunks == chunks(statement.shuffled_ciphers, n)
        seen == [x |-> x, y |-> y, z |-> z, commitments_to_a |-> commitments_to_a,
                 product |-> product, expected_product |-> expected_product,
                 multi_exp_statement |-> MEStatement(shuffled_chunks, product,
                                                     proof.b_commits),
                 handed |-> SqueezeNext(SqueezeNext(t5))]
    IN  Shuffle_verify_multi_exp(k, proof, pp, statement, seen,
            PA_verify(k, proof.product_argument_proof, PAParameters(m, n, ck),
                      PAStatement(commitments_to_a, expected_product),
                      SqueezeNext(SqueezeNext(t5))))

\* The return of statement.is_valid()? on an invalid statement: the error,
\* the transcript left in state t, nothing derived and no sub-argument run.
ShuffleRejected(t) ==
    [res |-> InvalidShuffleStatement, fs |-> t, pa |-> None, me |-> None, seen |-> <<>>,
     sub |-> [zero |-> None, had |-> None, svp |-> None]]

Shuffle_verify_TagFirst(k, proof, pp, statement, t) ==
    IF ~ShuffleStatementValid(statement)
    THEN ShuffleRejected(absorb(k, t, <<TagShuffle>>))
    ELSE Shuffle_verify_arguments(k, proof, pp, statement, t)

\* Proof::verify of the shuffle argument.
Shuffle_verify(k, proof, pp, statement, t) ==
    IF ~ShuffleStatementValid(statement)
    THEN ShuffleRejected(t)
    ELSE Shuffle_verify_arguments(k, proof, pp, statement, t)

\* The dimension pairs (m, n) of the statements explored.
Dims == {<<2, 2>>, <<3, 2>>, <<2, 3>>}

\* Enc::setup, Enc::keygen, Generator::rand, Comm::setup(rng, n): the ElGamal
\* generator, the public key, the message generator and the commit key.
Setups(n) ==
    { ShuffleParameters([generator |-> 1], 2, CommitKey([j \in 1..n |-> j], 4), 3),
      ShuffleParameters([generator |-> 2], 3, CommitKey([j \in 1..n |-> (2 * j) % Q], 1), 1) }

\* Permutation::new: every permutation of four positions; of more positions,
\* three rotations and their reversals.
PermutationsOf(size) ==
    IF size <= 4
    THEN {p \in [1..size -> 1..size] : \A i, j \in 1..size : p[i] = p[j] => i = j}
    ELSE UNION {{[i \in 1..size |-> ((i - 1 + c) % size) + 1],
                 [i \in 1..size |-> size - ((i - 1 + c) % size)]} : c \in 0..2}

\* sample_vector(rng, number_of_ciphers): the input ciphertexts and the masking factors.
Decks(size) == {[i \in 1..size |-> Ciphertext(i % Q, (2 * i + 1) % Q)]}
MaskingFactors(size) == {[i \in 1..size |-> (i * i) % Q], [i \in 1..size |-> 0]}

\* permuted_ciphers[i] + Enc(pk, 0; masking_factor[i])
shuffled_ciphers(pp, ciphers, permutation, masking_factors) ==
    LET permuted_ciphers == permute_array(permutation, ciphers)
    IN  [i \in 1..Len(ciphers) |->
           CipherAdd(permuted_ciphers[i],
                     encrypt(pp.encrypt_parameters, pp.public_key, 0, masking_factors[i]))]

\* prepare_proof_parameters: a statement with its witness; both transcripts
\* from_seed of the same bytes.
ShuffleInit ==
    /\ key \in {k \in Keys : k.d = 0}
    /\ rng \in {r \in RngStates : r.c = 0 /\ r.s \in {0, Q - 1}}
    /\ \E dims \in Dims :
         \E pp \in Setups(dims[2]), ciphers \in Decks(dims[1] * dims[2]),
            permutation \in PermutationsOf(dims[1] * dims[2]),
            masking_factors \in MaskingFactors(dims[1] * dims[2]) :
           shf = [pc |-> "ready", pp |-> pp,
                  statement |-> ShuffleStatement(
                      ciphers, shuffled_ciphers(pp, ciphers, permutation, masking_factors),
                      dims[1], dims[2]),
                  witness |-> ShuffleWitness(permutation, masking_factors),
                  used |-> ShuffleWitness(permutation, masking_factors),
                  given |-> ShuffleStatement(<<>>, <<>>, 0, 0),
                  proof |-> <<>>, prover |-> <<>>, res |-> None, pa |-> None, me |-> None,
                  seen |-> <<>>, sub |-> <<>>, direct |-> <<>>]
    /\ fsP = from_seed(key, <<1>>)
    /\ fsV = from_seed(key, <<1>>)
    /\ sch = Idle
    /\ cp = Idle
    /\ fedl = Idle
    /\ ped = Idle
    /\ svarg = Idle
    /\ hparg = Idle
    /\ mearg = Idle
    /\ zvarg = Idle

\* The witnesses prove is called with: the true one, or one whose masking
\* factor differs in the first or in the last entry.
WitnessesFor(witness) ==
    {witness} \cup
    {ShuffleWitness(witness.permutation, [witness.rho EXCEPT ![i] = FAdd(@, 1)]) :
       i \in {1, Len(witness.rho)}}

\* ShuffleArgument::prove
ShuffleProve ==
    /\ shf.pc = "ready"
    /\ \E w \in WitnessesFor(shf.witness) :
         \E out \in {Shuffle_prove(key, rng, fsP, shf.pp, shf.statement, w)} :
             /\ shf' = [shf EXCEPT !.pc = "proved", !.used = w, !.proof = out.proof,
                                   !.given = shf.statement,
                                   !.prover = [x |-> out.x, y |-> out.y, z |-> out.z,
                                               commitments_to_a |-> out.commitments_to_a,
                                               claimed_product |-> out.claimed_product,
                                               product |-> out.product,
                                               multi_exp_statement |->
                                                   out.multi_exp_statement,
                                               handed |-> out.handed]]
             /\ fsP' = out.fs
             /\ rng' = out.rng
    /\ UNCHANGED <<key, fsV, sch, cp, fedl, ped, svarg, hparg, mearg, zvarg>>

\* The first two shuffled ciphertexts of the statement handed to verify are
\* exchanged after the proof was made.
ShuffleSwap ==
    /\ shf.pc = "proved"
    /\ shf.used = shf.witness
    /\ shf.statement.shuffled_ciphers[1] # shf.statement.shuffled_ciphers[2]
    /\ LET sc == shf.statement.shuffled_ciphers
       IN  shf' = [shf EXCEPT !.pc = "swapped",
                     !.given = [shf.statement EXCEPT
                                  !.shuffled_ciphers = [sc EXCEPT ![1] = sc[2], ![2] = sc[1]]]]
    /\ UNCHANGED <<key, rng, fsP, fsV, sch, cp, fedl, ped, svarg, hparg, mearg, zvarg>>

\* One part of one sub-proof of an honest proof is changed before the proof is
\* verified: t_blinded of the zero argument, r_blinded of the single value
\* product argument, tau_blinded of the multi-exponentiation argument, the
\* first commitment of the Hadamard proof, or the vectors commit_b_k and
\* vector_e_k of the multi-exponentiation argument, which get one more entry
\* (the commitment to 0 under 0 and the ciphertext of the identities); or the
\* first three of these parts are changed together; or, in the
\* multi-exponentiation proof, the commitment or the ciphertext at index m,
\* r_blinded or s_blinded.
ShuffleTamper ==
    /\ shf.pc = "proved"
    /\ shf.used = shf.witness
    /\ \E proof \in
          {[shf.proof EXCEPT !.product_argument_proof.hadamard_product_proof
                               .zero_arg_proof.t_blinded = FAdd(@, 1)],
           [shf.proof EXCEPT !.product_argument_proof.single_value_proof.r_blinded
                               = FAdd(@, 1)],
           [shf.proof EXCEPT !.multi_exp_proof.tau_blinded = FAdd(@, 1)],
           [shf.proof EXCEPT !.product_argument_proof.hadamard_product_proof
                               .b_commits[1] = GAdd(@, 1)],
           [shf.proof EXCEPT !.multi_exp_proof.commit_b_k
                               = Append(@, commit(shf.pp.commit_key, <<0>>, 0)),
                             !.multi_exp_proof.vector_e_k = Append(@, CipherZero)],
           [shf.proof EXCEPT !.product_argument_proof.hadamard_product_proof
                               .zero_arg_proof.t_blinded = FAdd(@, 1),
                             !.product_argument_proof.single_value_proof.r_blinded
                               = FAdd(@, 1),
                             !.multi_exp_proof.tau_blinded = FAdd(@, 1)],
           [shf.proof EXCEPT !.multi_exp_proof.commit_b_k[shf.statement.m + 1]
                               = GAdd(@, 1)],
           [shf.proof EXCEPT !.multi_exp_proof.vector_e_k[shf.statement.m + 1]
                               = CipherAdd(@, Ciphertext(1, 0))],
           [shf.proof EXCEPT !.multi_exp_proof.r_blinded = FAdd(@, 1)],
           [shf.proof EXCEPT !.multi_exp_proof.s_blinded = FAdd(@, 1)]} :
         shf' = [shf EXCEPT !.pc = "tampered", !.proof = proof]
    /\ UNCHANGED <<key, rng, fsP, fsV, sch, cp, fedl, ped, svarg, hparg, mearg, zvarg>>

\* The proof handed to verify has a vector with fewer entries than the
\* prover made: m + 1 or m + 2 committed diagonals in the zero argument proof,
\* m - 1 intermediate commitments in the Hadamard proof, m entries in
\* commit_b_k or in vector_e_k of the multi-exponentiation proof.
ShuffleTruncate ==
    /\ shf.pc = "proved"
    /\ shf.used = shf.witness
    /\ \E proof \in
          {[shf.proof EXCEPT !.product_argument_proof.hadamard_product_proof
                               .zero_arg_proof.vector_of_committed_diagonals
                               = SubSeq(@, 1, shf.statement.m + 1)],
           [shf.proof EXCEPT !.product_argument_proof.hadamard_product_proof
                               .zero_arg_proof.vector_of_committed_diagonals
                               = SubSeq(@, 1, shf.statement.m + 2)],
           [shf.proof EXCEPT !.product_argument_proof.hadamard_product_proof
                               .b_commits = SubSeq(@, 1, shf.statement.m - 1)],
           [shf.proof EXCEPT !.multi_exp_proof.commit_b_k
                               = SubSeq(@, 1, shf.statement.m)],
           [shf.proof EXCEPT !.multi_exp_proof.vector_e_k
                               = SubSeq(@, 1, shf.statement.m)]} :
         shf' = [shf EXCEPT !.pc = "truncated", !.proof = proof]
    /\ UNCHANGED <<key, rng, fsP, fsV, sch, cp, fedl, ped, svarg, hparg, mearg, zvarg>>

\* The statements handed to verify that is_valid refuses: one shuffled
\* ciphertext fewer than input ciphertexts, one chunk more than the
\* ciphertexts fill, and the statement without ciphertexts.
InvalidStatementsFor(statement) ==
    {[statement EXCEPT !.shuffled_ciphers = SubSeq(@, 1, Len(@) - 1)],
     [statement EXCEPT !.m = @ + 1],
     ShuffleStatement(<<>>, <<>>, 0, 0)}

\* The statement handed to verify is replaced by an invalid one after the
\* proof was made.
ShuffleMisstate ==
    /\ shf.pc = "proved"
    /\ shf.used = shf.witness
    /\ \E given \in InvalidStatementsFor(shf.statement) :
         shf' = [shf EXCEPT !.pc = "misstated", !.given = given]
    /\ UNCHANGED <<key, rng, fsP, fsV, sch, cp, fedl, ped, svarg, hparg, mearg, zvarg>>

\* ProductArgument::verify called on its own, with the statement and the
\* transcript state the shuffle prover called the product argument with and
\* the parameter m or m + 1; the transcript the call works on is kept in
\* direct.fs.
ProductVerify ==
    /\ shf.pc = "proved"
    /\ shf.used = shf.witness
    /\ \E m \in {shf.statement.m, shf.statement.m + 1} :
         \E out \in {PA_verify(key, shf.proof.product_argument_proof,
                               PAParameters(m, shf.statement.n, shf.pp.commit_key),
                               PAStatement(shf.prover.commitments_to_a,
                                           shf.prover.claimed_product),
                               shf.prover.handed)} :
           shf' = [shf EXCEPT !.pc = "product_verified",
                              !.direct = [m |-> m, res |-> out.res, fs |-> out.fs,
                                          had |-> out.had, svp |-> out.svp]]
    /\ UNCHANGED <<key, rng, fsP, fsV, sch, cp, fedl, ped, svarg, hparg, mearg, zvarg>>

\* ShuffleArgument::verify
ShuffleVerify ==
    /\ shf.pc \in {"proved", "swapped", "tampered", "misstated", "truncated"}
    /\ \E out \in {Shuffle_verify(key, shf.proof, shf.pp, shf.given, fsV)} :
           /\ shf' = [shf EXCEPT !.pc = IF shf.pc = "proved" THEN "verified"
                                        ELSE IF shf.pc = "swapped" THEN "verified_swapped"
                                        ELSE IF shf.pc = "misstated"
                                        THEN "verified_misstated"
                                        ELSE IF shf.pc = "truncated"
                                        THEN "verified_truncated"
                                        ELSE "verified_tampered",
                                 !.res = out.res, !.pa = out.pa, !.me = out.me,
                                 !.seen = out.seen, !.sub = out.sub]
           /\ fsV' = out.fs
    /\ UNCHANGED <<key, rng, fsP, sch, cp, fedl, ped, svarg, hparg, mearg, zvarg>>

ShuffleNext ==
    \/ ShuffleProve
    \/ ShuffleSwap
    \/ ShuffleTamper
    \/ ShuffleMisstate
    \/ ShuffleTruncate
    \/ ProductVerify
    \/ ShuffleVerify

SpecShuffle == ShuffleInit /\ [][ShuffleNext]_vars

\* verify was called with the statement and the witness of the proof.
ShuffleHonestVerified ==
    shf.pc = "verified" /\ shf.used = shf.witness

ShuffleSwappedVerified == shf.pc = "verified_swapped"

\* The commitment to the first row that verify derives from its challenges
\* differs from the first commitment of the Hadamard proof.
FirstRowDiffers ==
    shf.seen.commitments_to_a[1]
        # shf.proof.product_argument_proof.hadamard_product_proof.b_commits[1]

\* C2 as stated: after the exchange verify rejects with the label of the
\* multi-exponentiation layer.
C2_MultiExpLabel ==
    ShuffleSwappedVerified => shf.res = MEError

\* C2: after the exchange verify derives its challenges from a transcript
\* that absorbed the exchanged statement; whenever they change the
\* commitment to the first row it rejects with the Hadamard label, the
\* multi-exponentiation argument is not verified unless the product argument
\* accepted, and its label is returned only in that case.
C2_FirstFailingLayer ==
    ShuffleSwappedVerified =>
      /\ FirstRowDiffers => (shf.res = HPError /\ shf.pa = HPError)
      /\ shf.pa # Ok => (shf.res = shf.pa /\ shf.me = None)
      /\ shf.res = MEError => shf.pa = Ok

\* The exchange changed the challenges and the first row's commitment, and
\* verify rejected with the Hadamard label without reaching the
\* multi-exponentiation argument.
C2_Witness ==
    /\ ShuffleSwappedVerified
    /\ shf.seen.x # shf.prover.x
    /\ FirstRowDiffers
    /\ shf.res = HPError
    /\ shf.me = None

\* verify was called on a proof made with a masking vector that differs from
\* the true one in one entry.
ShuffleWrongRhoVerified ==
    /\ shf.pc = "verified"
    /\ shf.used # shf.witness
    /\ shf.used.permutation = shf.witness.permutation

\* C3 as stated: the proof made with one changed masking factor is rejected.
C3_AlwaysRejected ==
    ShuffleWrongRhoVerified => shf.res # Ok

\* C3: the proof made with one changed masking factor passes the product
\* argument and is rejected by the multi-exponentiation argument whenever the
\* challenge x is not 0; for x = 0 it is accepted. The proof made with the
\* true masking factors is accepted.
C3_RejectedUnlessZeroChallenge ==
    /\ ShuffleWrongRhoVerified =>
         /\ shf.pa = Ok
         /\ shf.prover.x # 0 => (shf.res = MEError /\ shf.prover.product # shf.seen.product)
         /\ shf.prover.x = 0 => shf.res = Ok
    /\ ShuffleHonestVerified => shf.res = Ok

\* A changed factor, a non-zero challenge: rejected by the multi-exponentiation
\* argument.
C3_Witness ==
    /\ ShuffleWrongRhoVerified
    /\ shf.prover.x # 0
    /\ shf.pa = Ok
    /\ shf.res = MEError

\* ------------------------------------------------------------ Pedersen commitment calls

\* Comm::setup(rng, len): keys of no, one and two bases; a base or h may be
\* the identity.
PedersenKeys ==
    {CommitKey(<<>>, 2), CommitKey(<<2>>, 1), CommitKey(<<1, 2>>, 4), CommitKey(<<3, 3>>, 0),
     CommitKey(<<0, 4>>, 3)}

\* A caller holds a key, a value vector and its randomness.
PedersenInit ==
    /\ \E ck \in PedersenKeys, k \in 0..MaxValues :
         \E x \in [1..k -> F], r \in {0, 3} :
           ped = [pc |-> "ready", commit_key |-> ck, x |-> x, r |-> r]
    /\ key \in {k \in Keys : k.d = 0 /\ k.o = 0}
    /\ rng \in {r \in RngStates : r.c = 0 /\ r.s = 0}
    /\ fsP = from_seed(key, <<1>>)
    /\ fsV = from_seed(key, <<1>>)
    /\ sch = Idle
    /\ cp = Idle
    /\ fedl = Idle
    /\ shf = Idle
    /\ svarg = Idle
    /\ hparg = Idle
    /\ mearg = Idle
    /\ zvarg = Idle

\* Comm::commit(commit_key, &x, r)
PedersenCommitCall ==
    /\ ped.pc = "ready"
    /\ ped' = [pc |-> "committed", commit_key |-> ped.commit_key, x |-> ped.x, r |-> ped.r,
               out |-> Pedersen_commit(ped.commit_key, ped.x, ped.r)]
    /\ UNCHANGED <<key, rng, fsP, fsV, sch, cp, fedl, shf, svarg, hparg, mearg, zvarg>>

\* A second vector of the same length is committed, the two commitments are
\* added and the first is scaled (a * y + b in the shuffle verifier); the sum
\* and the multiple of the openings are committed as well.
PedersenCombine ==
    /\ ped.pc = "committed"
    /\ ped.out.res = Ok
    /\ \E y \in [1..Len(ped.x) -> F], s \in F, alpha \in F :
         ped' = [pc |-> "combined", commit_key |-> ped.commit_key, x |-> ped.x, r |-> ped.r,
                 out |-> ped.out, y |-> y, s |-> s, alpha |-> alpha,
                 sum |-> GAdd(ped.out.value, Pedersen_commit(ped.commit_key, y, s).value),
                 scaled |-> GMul(ped.out.value, alpha),
                 of_sum |-> Pedersen_commit(ped.commit_key, VecAdd(ped.x, y), FAdd(ped.r, s)),
                 of_scaled |-> Pedersen_commit(ped.commit_key, VecScale(ped.x, alpha),
                                               FMul(ped.r, alpha))]
    /\ UNCHANGED <<key, rng, fsP, fsV, sch, cp, fedl, shf, svarg, hparg, mearg, zvarg>>

PedersenNext ==
    \/ PedersenCommitCall
    \/ PedersenCombine

SpecPedersen == PedersenInit /\ [][PedersenNext]_vars

PedersenCommitted == ped.pc \in {"committed", "combined"}

\* C11: commit fails with CommitmentLengthError("Pedersen", k, n) exactly when the
\* k values are more than the n bases of the key; for every k <= n, k < n and
\* k = 0 included, it returns r*h + sum_{i=1..k} x_i*g_i over the first k bases.
C11_CommitLength ==
    PedersenCommitted =>
        LET k == Len(ped.x)
            n == Len(ped.commit_key.g)
        IN  /\ (ped.out.res = CommitmentLengthError("Pedersen", k, n)) <=> (k > n)
            /\ k <= n =>
                 /\ ped.out.res = Ok
                 /\ ped.out.value
                      = GAdd(GMul(ped.commit_key.h, ped.r),
                             SumF([i \in 1..k |-> GMul(ped.commit_key.g[i], ped.x[i])]))
                 /\ ped.out.value = commit(ped.commit_key, ped.x, ped.r)

\* Fewer values than bases, and a base the values do not reach that is not the identity.
C11_Witness ==
    /\ ped.pc = "committed"
    /\ Len(ped.x) = 1
    /\ ped.commit_key = CommitKey(<<1, 2>>, 4)
    /\ ped.x[1] # 0
    /\ ped.r # 0
    /\ ped.out.res = Ok
    /\ ped.out.value = GAdd(GMul(4, ped.r), GMul(1, ped.x[1]))

\* C12: for equal lengths k <= n, Commit(x, r) + Commit(y, s) = Commit(x + y, r + s)
\* and alpha * Commit(x, r) = Commit(alpha * x, alpha * r).
C12_Homomorphism ==
    ped.pc = "combined" =>
        /\ ped.of_sum.res = Ok
        /\ ped.of_scaled.res = Ok
        /\ ped.sum = ped.of_sum.value
        /\ ped.scaled = ped.of_scaled.value

C12_Witness ==
    /\ ped.pc = "combined"
    /\ Len(ped.x) = 2
    /\ ped.alpha \notin {0, 1}
    /\ ped.y # ped.x
    /\ ped.s # 0
    /\ ped.out.value # 0
    /\ ped.sum # ped.out.value
    /\ ped.scaled # ped.out.value

\* ------------------------------------------------------------ single value product argument runs

\* The witnesses prove is called with: the one the statement was made of, the
\* one with a[0] + a[0] in place of a[0], and the one with its last entry
\* increased by one.
SVPWitnessesFor(witness) ==
    {witness} \cup
    {SVPWitness([witness.a EXCEPT ![1] = FAdd(@, @)], witness.random_for_a_commit),
     SVPWitness([witness.a EXCEPT ![Len(witness.a)] = FAdd(@, 1)], witness.random_for_a_commit)}

\* test_single_product_argument: a commit key of n bases, a vector a with its
\* product b and the commitment to a under r; the prover's transcript from the
\* seed 1, the verifier's from a seed of its own.
SVPInit ==
    /\ key \in {k \in Keys : k.d = 0}
    /\ rng \in {r \in RngStates : r.c = 0}
    /\ fsP = from_seed(key, <<1>>)
    /\ \E n \in {1, 2, 3} :
         \E a \in [1..n -> F], r \in {0, 2}, seed \in Seeds :
           LET commit_key == CommitKey([j \in 1..n |-> j], 4)
           IN  /\ svarg = [pc |-> "ready", pp |-> SVPParameters(n, commit_key),
                           statement |-> SVPStatement(commit(commit_key, a, r), ProductF(a)),
                           witness |-> SVPWitness(a, r), used |-> SVPWitness(a, r),
                           seed |-> seed, proof |-> <<>>, x |-> 0, results |-> <<>>,
                           seen |-> <<>>, proved |-> None]
               /\ fsV = from_seed(key, <<seed>>)
    /\ sch = Idle
    /\ cp = Idle
    /\ fedl = Idle
    /\ shf = Idle
    /\ ped = Idle
    /\ hparg = Idle
    /\ mearg = Idle
    /\ zvarg = Idle

\* SingleValueProd::prove
SVPProve ==
    /\ svarg.pc = "ready"
    /\ \E w \in SVPWitnessesFor(svarg.witness) :
         \E out \in SVP_prove_outcomes(key, rng, fsP, svarg.pp, svarg.statement, w) :
             /\ svarg' = [svarg EXCEPT !.pc = IF out.res = Ok THEN "proved" ELSE "aborted",
                                       !.used = w, !.proof = out.proof, !.x = out.x,
                                       !.proved = out.res]
             /\ fsP' = out.fs
             /\ rng' = out.rng
    /\ UNCHANGED <<key, fsV, sch, cp, fedl, shf, ped, hparg, mearg, zvarg>>

\* A prover that keeps a and r, takes 1 for the last entry of deltas, derives
\* the challenge x as prove does, and only then names the product it claims:
\* b = b_blinded[n] / x, which is the product of a plus 1 / x.
SVPClaimAfterChallenge ==
    /\ svarg.pc = "ready"
    /\ svarg.pp.n >= 2
    /\ \E out \in {SVP_prove_deltas(key, rng, fsP, svarg.pp, svarg.statement,
                                     svarg.witness, 1)} :
         /\ out.x # 0
         /\ svarg' = [svarg EXCEPT
                        !.pc = "claimed", !.proof = out.proof, !.x = out.x,
                        !.statement.b =
                            FMul(out.proof.b_blinded[svarg.pp.n],
                                 CHOOSE inv \in F : FMul(inv, out.x) = 1)]
         /\ fsP' = out.fs
         /\ rng' = out.rng
    /\ UNCHANGED <<key, fsV, sch, cp, fedl, shf, ped, hparg, mearg, zvarg>>

\* proof.verify on the verifier's transcript object, as it was left by the
\* calls before.
SVPVerify ==
    /\ svarg.pc \in {"proved", "claimed"}
    /\ Len(svarg.results) < MaxVerify
    /\ \E out \in {SVP_verify(key, svarg.proof, svarg.pp, svarg.statement, fsV)} :
         /\ svarg' = [svarg EXCEPT !.results = Append(@, out.res),
                                   !.seen = Append(@, [x |-> out.x, fs |-> out.fs])]
         /\ fsV' = out.fs
    /\ UNCHANGED <<key, rng, fsP, sch, cp, fedl, shf, ped, hparg, mearg, zvarg>>

SVPNext ==
    \/ SVPProve
    \/ SVPClaimAfterChallenge
    \/ SVPVerify

SpecSVP == SVPInit /\ [][SVPNext]_vars

\* The first verification of a proof, on a transcript from the prover's seed.
SVPFirstVerified == svarg.pc = "proved" /\ svarg.seed = 1 /\ Len(svarg.results) >= 1

\* C13: with cA = Commit(a, r) and b the product of a, the proof made from (a, r)
\* is accepted by a verifier whose transcript starts from the prover's seed.
C13_SVPComplete ==
    (SVPFirstVerified /\ svarg.used = svarg.witness) => svarg.results[1] = Ok

C13_Witness ==
    /\ SVPFirstVerified
    /\ svarg.used = svarg.witness
    /\ svarg.pp.n = 3
    /\ svarg.statement.b # 0
    /\ svarg.x \notin {0, 1}
    /\ svarg.proof.a_blinded # svarg.witness.a
    /\ svarg.results[1] = Ok

SVPWrongWitness == SVPFirstVerified /\ svarg.used # svarg.witness

\* C14 as stated: a proof made from a witness that differs from a in one entry is
\* rejected with ProofVerificationError("Single Value Product Argument (5.3)").
C14_AlwaysRejected == SVPWrongWitness => svarg.results[1] = SVPError

\* C14: it is rejected, with that error, whenever the challenge is not 0; at the
\* challenge 0 the blinded vectors are the blinders alone and it is accepted.
C14_RejectedUnlessZeroChallenge ==
    SVPWrongWitness =>
        /\ svarg.seen[1].x = svarg.x
        /\ svarg.x # 0 => svarg.results[1] = SVPError
        /\ svarg.x = 0 => svarg.results[1] = Ok

C14_Witness ==
    /\ SVPWrongWitness
    /\ svarg.used.a[1] = FAdd(svarg.witness.a[1], svarg.witness.a[1])
    /\ svarg.statement.b # 0
    /\ svarg.x # 0
    /\ svarg.results[1] = SVPError

\* ------------------------------------------------------------ error propagation

ShuffleAnyVerified == shf.pc \in {"verified", "verified_swapped", "verified_tampered"}

\* C15 as stated: the error of every sub-argument's verify reaches the caller of
\* the top-level verify with its kind and label.
C15_Unchanged ==
    ShuffleAnyVerified =>
        /\ shf.sub.zero \notin {Ok, None} => shf.res = shf.sub.zero
        /\ (shf.sub.zero \in {Ok, None} /\ shf.sub.had \notin {Ok, None})
             => shf.res = shf.sub.had
        /\ shf.sub.svp \notin {Ok, None} => shf.res = shf.sub.svp
        /\ shf.me \notin {Ok, None} => shf.res = shf.me

\* C15: the errors of Hadamard, single value product, product and
\* multi-exponentiation reach the caller unchanged, the first failing one in the
\* order of verification; the error of the zero argument does not: the Hadamard
\* verifier returns its own label in its place.
C15_UnchangedButZeroArgument ==
    ShuffleAnyVerified =>
        /\ shf.sub.zero \notin {Ok, None}
             => (shf.sub.had = HPError /\ shf.res = HPError /\ shf.res # shf.sub.zero)
        /\ shf.sub.had \notin {Ok, None} => (shf.pa = shf.sub.had /\ shf.res = shf.sub.had)
        /\ shf.sub.svp \notin {Ok, None} => (shf.pa = shf.sub.svp /\ shf.res = shf.sub.svp)
        /\ shf.pa \notin {Ok, None} => shf.res = shf.pa
        /\ shf.me \notin {Ok, None} => shf.res = shf.me
        /\ shf.res = Ok <=> (shf.sub.zero = Ok /\ shf.sub.had = Ok /\ shf.sub.svp = Ok
                              /\ shf.pa = Ok /\ shf.me = Ok)

\* The zero argument alone fails, with its own label, and the caller sees the
\* label of the Hadamard argument.
C15_Witness ==
    /\ shf.pc = "verified_tampered"
    /\ shf.sub.zero = ZVError
    /\ shf.sub.had = HPError
    /\ shf.res = ProofVerificationError("Hadamard Product (5.1)")

\* ------------------------------------------------------------ transcript agreement

\* Each component that has its prover and its verifier in the source, the
\* verifier handed the prover's statement and a transcript from a seed of its
\* own.
TranscriptInit ==
    \/ SchnorrInit /\ key.d = 0 /\ rng.c = 0
    \/ CPInit /\ cp.statementV = cp.statement /\ key.d = 0 /\ rng.c = 0
    \/ SVPInit
    \/ ShuffleInit /\ shf.statement.m = 2 /\ shf.statement.n = 2

TranscriptNext ==
    \/ SchnorrNext
    \/ CPNext
    \/ SVPNext
    \/ ShuffleNext

SpecTranscripts == TranscriptInit /\ [][TranscriptNext]_vars

\* A shuffle proof verified against the statement it was made for.
ShuffleSameStatementVerified == shf.pc \in {"verified", "verified_tampered"}

\* C16: given the same parameters, statement and proof messages, the verifier of
\* Schnorr, Chaum-Pedersen, single value product and of the top level of shuffle
\* derives the challenges the prover derived and leaves, or hands to the next
\* sub-argument, the transcript in the state the prover's was in.
C16_TranscriptAgreement ==
    /\ (sch.pc = "proved" /\ sch.seedV = sch.seedP /\ Len(sch.results) >= 1)
         => (sch.cV[1] = sch.cP /\ (Len(sch.results) = 1 => fsV = fsP))
    /\ (cp.pc = "proved" /\ cp.seedV = cp.seedP /\ Len(cp.results) >= 1)
         => (cp.cV[1] = cp.cP /\ (Len(cp.results) = 1 => fsV = fsP))
    /\ (svarg.pc = "proved" /\ svarg.seed = 1 /\ Len(svarg.results) >= 1)
         => (svarg.seen[1].x = svarg.x /\ svarg.seen[1].fs = fsP)
    /\ ShuffleSameStatementVerified
         => /\ shf.seen.x = shf.prover.x
            /\ shf.seen.y = shf.prover.y
            /\ shf.seen.z = shf.prover.z
            /\ shf.seen.handed = shf.prover.handed

\* The three challenges of a shuffle proof, none of them 0 and not all equal.
C16_Witness ==
    /\ shf.pc = "verified"
    /\ shf.prover.x # 0
    /\ shf.prover.y # 0
    /\ shf.prover.z # 0
    /\ shf.prover.x # shf.prover.y
    /\ shf.seen.x = shf.prover.x
    /\ shf.seen.handed = shf.prover.handed
    /\ shf.res = Ok

\* ------------------------------------------------------------ absorb order

\* The arguments of the absorb calls, in the order they are absorbed.
AbsorbedItems(calls) == Flatten(calls)

\* tag, then public parameters, then statement, then messages of the proof.
PartRank(part) ==
    CASE part = "tag" -> 1
      [] part = "parameters" -> 2
      [] part = "statement" -> 3
      [] part = "message" -> 4

\* The items start with the tag, never go back from a later part to an earlier
\* one, and every field of the statement is among them as part of the statement.
InAbsorbOrder(items, statement) ==
    /\ items # <<>>
    /\ items[1].part = "tag"
    /\ \A i, j \in 1..Len(items) : i < j => PartRank(items[i].part) <= PartRank(items[j].part)
    /\ \A field \in DOMAIN statement :
          \E i \in 1..Len(items) : items[i].part = "statement" /\ items[i].name = field

\* verify was called on a single value product proof.
SVPVerifyCalled == svarg.pc \in {"proved", "claimed"} /\ Len(svarg.results) >= 1

\* C17 as stated, for the single value product argument: what verify has
\* absorbed when it squeezes the challenge x is the tag, the public parameters,
\* the whole statement (a_commit and the claimed product b) and then the three
\* commitments of the proof, in this order.
C17_StatementAbsorbedBeforeChallenge ==
    SVPVerifyCalled =>
        InAbsorbOrder(AbsorbedItems(SVPAbsorbed(svarg.pp, svarg.statement,
                                                svarg.proof.d_commit,
                                                svarg.proof.delta_commit,
                                                svarg.proof.diff_commit)),
                      svarg.statement)

\* A proof made before the product was claimed is accepted for a claimed
\* product that is not the product of the committed vector.
C17_Witness ==
    /\ svarg.pc = "claimed"
    /\ svarg.seed = 1
    /\ Len(svarg.results) >= 1
    /\ svarg.results[1] = Ok
    /\ svarg.seen[1].x = svarg.x
    /\ svarg.statement.a_commit
          = commit(svarg.pp.commit_key, svarg.witness.a, svarg.witness.random_for_a_commit)
    /\ svarg.statement.b # ProductF(svarg.witness.a)

\* ------------------------------------------------------------ multi-exponentiation dimensions

\* The multi-exponentiation verifier ran on the proof and returned Ok.
MEAccepted == shf.pc \in {"verified", "verified_swapped", "verified_tampered"} /\ shf.me = Ok

\* The second absorb call of the multi-exponentiation verifier on the proof and
\* the statement it was given: the dimension triple.
MEDimensionsAbsorbed ==
    LET mep == shf.proof.multi_exp_proof
        calls == MEAbsorbed(MEParameters(shf.pp.encrypt_parameters, shf.pp.public_key,
                                         shf.pp.commit_key, shf.pp.generator),
                            MEStatement(chunks(shf.given.shuffled_ciphers, shf.given.n),
                                        shf.seen.product, shf.proof.b_commits),
                            mep.a_0_commit, mep.commit_b_k, mep.vector_e_k)
    IN  Flatten([i \in 1..Len(calls[2]) |-> calls[2][i].bytes])

\* (1, x, ..., x^last)
PowersUpTo(x, last) == [i \in 1..(last + 1) |-> Pow(x, i - 1) % Q]

\* C18 as stated: an accepted proof has 2m+1 commitments cBk and 2m+1
\* ciphertexts Ek, the absorbed triple is (m, n, 2m+1) and the power vector is
\* (1, x, ..., x^{2m}).
C18_TwoMPlusOne ==
    MEAccepted =>
        LET m == shf.given.m
            mep == shf.proof.multi_exp_proof
        IN  /\ Len(mep.commit_b_k) = 2 * m + 1
            /\ Len(mep.vector_e_k) = 2 * m + 1
            /\ MEDimensionsAbsorbed = <<m, shf.given.n, 2 * m + 1>>
            /\ \A x \in F : scalar_powers(x, num_of_diagonals(m)) = PowersUpTo(x, 2 * m)

\* C18: an accepted proof has 2m commitments cBk and 2m ciphertexts Ek
\* (k = 0..2m-1), the absorbed triple is (m, n, 2m-1) and the power vector is
\* (1, x, ..., x^{2m-1}).
C18_TwoM ==
    MEAccepted =>
        LET m == shf.given.m
            mep == shf.proof.multi_exp_proof
        IN  /\ Len(mep.commit_b_k) = 2 * m
            /\ Len(mep.vector_e_k) = 2 * m
            /\ MEDimensionsAbsorbed = <<m, shf.given.n, 2 * m - 1>>
            /\ \A x \in F : scalar_powers(x, num_of_diagonals(m)) = PowersUpTo(x, 2 * m - 1)

\* An accepted proof for three chunks, with its six commitments and ciphertexts.
C18_Witness ==
    /\ MEAccepted
    /\ shf.pc = "verified"
    /\ shf.res = Ok
    /\ shf.given.m = 3
    /\ Len(shf.proof.multi_exp_proof.commit_b_k) = 6
    /\ Len(shf.proof.multi_exp_proof.vector_e_k) = 6

\* ------------------------------------------------------------ transcript-state sensitivity

\* The i-th call of verify on the verifier's transcript object started in the
\* state the prover's transcript started in: the first call, from the prover's seed.
SameStart(seed, i) == seed = 1 /\ i = 1

\* Honest proofs of the three components.
SchnorrHonestProved == sch.pc = "proved" /\ sch.witness = sch.sk
CPHonestProved == cp.pc = "proved" /\ cp.witness = cp.secret
SVPHonestProved == svarg.pc = "proved" /\ svarg.used = svarg.witness

HadamardInit ==
    /\ key \in {k \in Keys : k.d = 0}
    /\ rng \in {r \in RngStates : r.c = 0}
    /\ fsP = from_seed(key, <<1>>)
    /\ fsV = from_seed(key, <<1>>)
    /\ \E m \in {2, 3} :
         \E A \in [1..m -> [1..2 -> {1, 2}]] :
           LET commit_key == CommitKey(<<1, 2>>, 4)
               r == [i \in 1..m |-> i]
               b == HadamardRows(A, m)
           IN  hparg = [pc |-> "ready", pp |-> HPParameters(m, 2, commit_key),
                        statement |-> HPStatement([i \in 1..m |-> commit(commit_key, A[i], r[i])],
                                                  commit(commit_key, b, 3)),
                        witness |-> HPWitness(A, r, b, 3), proof |-> <<>>,
                        res |-> None, zero |-> None, zero_witness |-> <<>>,
                        seen |-> <<>>]
    /\ sch = Idle
    /\ cp = Idle
    /\ fedl = Idle
    /\ shf = Idle
    /\ ped = Idle
    /\ svarg = Idle
    /\ mearg = Idle
    /\ zvarg = Idle

\* The prover of the Hadamard product argument makes the proof.
HadamardProve ==
    /\ hparg.pc = "ready"
    /\ \E out \in {HP_prove(key, rng, fsP, hparg.pp, hparg.statement, hparg.witness)} :
         /\ hparg' = [hparg EXCEPT !.pc = "proved", !.proof = out.proof,
                                    !.zero_witness = out.zero_witness]
         /\ fsP' = out.fs
         /\ rng' = out.rng
    /\ UNCHANGED <<key, fsV, sch, cp, fedl, shf, ped, svarg, mearg, zvarg>>

\* The proof handed to verify: the prover's, or one whose first intermediate
\* commitment, m-th intermediate commitment and zero argument response
\* t_blinded are changed or not, in every combination.
HadamardHand ==
    /\ hparg.pc = "proved"
    /\ \E first \in {0, 1}, last \in {0, 2}, t \in {0, 1} :
         hparg' = [hparg EXCEPT
                     !.pc = "handed",
                     !.proof = [@ EXCEPT !.b_commits[1] = GAdd(@, first),
                                         !.b_commits[hparg.pp.m] = GAdd(@, last),
                                         !.zero_arg_proof.t_blinded = FAdd(@, t)]]
    /\ UNCHANGED <<key, rng, fsP, fsV, sch, cp, fedl, shf, ped, svarg, mearg, zvarg>>

\* Proof::verify of the Hadamard product argument.
HadamardVerify ==
    /\ hparg.pc = "handed"
    /\ \E out \in {HP_verify(key, hparg.proof, hparg.pp, hparg.statement, fsV)} :
         /\ hparg' = [hparg EXCEPT !.pc = "verified", !.res = out.res, !.zero = out.zero,
                                    !.seen = out.seen]
         /\ fsV' = out.fs
    /\ UNCHANGED <<key, rng, fsP, sch, cp, fedl, shf, ped, svarg, mearg, zvarg>>

HadamardNext ==
    \/ HadamardProve
    \/ HadamardHand
    \/ HadamardVerify

SpecHadamard == HadamardInit /\ [][HadamardNext]_vars

\* cB'[1] == cA[1] and cB'[m] == cB for the proof handed to verify.
HadamardFirstEqual == hparg.proof.b_commits[1] = hparg.statement.commitment_to_a[1]
HadamardLastEqual == hparg.proof.b_commits[hparg.pp.m] = hparg.statement.commitment_to_b

\* C20: the Hadamard verifier returns Ok only if cB'[1] == cA[1] and
\* cB'[m] == cB, and when one of the two equalities is violated it returns
\* ProofVerificationError("Hadamard Product (5.1)"), whatever the other
\* intermediate commitments and the zero argument proof are.
C20_EndPointChecks ==
    hparg.pc = "verified" =>
        /\ hparg.res = Ok => (HadamardFirstEqual /\ HadamardLastEqual)
        /\ ~(HadamardFirstEqual /\ HadamardLastEqual)
              => hparg.res = ProofVerificationError("Hadamard Product (5.1)")

\* A proof for three rows whose first intermediate commitment is the
\* statement's and whose third is not the result commitment is rejected
\* before the zero argument is verified.
C20_Witness ==
    /\ hparg.pc = "verified"
    /\ hparg.pp.m = 3
    /\ HadamardFirstEqual
    /\ ~HadamardLastEqual
    /\ hparg.res = ProofVerificationError("Hadamard Product (5.1)")
    /\ hparg.zero = None

\* ------------------------------------------------------------ statements handed to the sub-arguments

\* C21: for the statement the proof was made for, the product argument
\* statement the verifier reconstructs from a_commits, b_commits, x, y and z
\* (commitments y*a_commits[i] + b_commits[i] + Commit((-z,...,-z), 0) and the
\* product of y*i + x^i - z over i = 1..N) is the one the prover proved
\* (commitments to the rows of y*a + b - z under y*r_i + s_i and the product of
\* its entries).
C21_ProductStatementAgrees ==
    ShuffleSameStatementVerified =>
        /\ shf.seen.commitments_to_a = shf.prover.commitments_to_a
        /\ shf.seen.expected_product = shf.prover.claimed_product

\* A permutation that moves the first position, three distinct challenges
\* other than 0 and a product that is not 0.
C21_Witness ==
    /\ shf.pc = "verified"
    /\ shf.used = shf.witness
    /\ shf.witness.permutation[1] # 1
    /\ shf.seen.x \notin {0, 1}
    /\ shf.seen.y # 0
    /\ shf.seen.z # 0
    /\ shf.seen.expected_product # 0
    /\ shf.seen.expected_product = shf.prover.claimed_product
    /\ shf.seen.commitments_to_a = shf.prover.commitments_to_a

\* The shuffled ciphertexts are the permuted input ciphertexts, each masked
\* with an encryption of the identity under the factor of the witness prove
\* was called with, and verify was called for the same statement.
ShuffleRelationHolds == ShuffleSameStatementVerified /\ shf.used = shf.witness

\* C22: when the shuffled ciphertexts are C'[i] = C[pi(i)] + Enc(pk, 0; rho_i)
\* and b is the permuted x^1..x^N, the aggregate the prover puts in the
\* multi-exponentiation statement, sum b_i*C'[i] + Enc(pk, 0; -<rho, b>), is
\* the aggregate the verifier computes, sum x^i*C[i] with i from 1 to N, and
\* the two statements have the same m chunks of n shuffled ciphertexts and the
\* same b_commits.
C22_MultiExpStatementAgrees ==
    ShuffleRelationHolds =>
        /\ shf.prover.product = shf.seen.product
        /\ shf.prover.multi_exp_statement = shf.seen.multi_exp_statement
        /\ Len(shf.seen.multi_exp_statement.shuffled_ciphers) = shf.statement.m
        /\ \A i \in 1..shf.statement.m :
              Len(shf.seen.multi_exp_statement.shuffled_ciphers[i]) = shf.statement.n
        /\ shf.seen.multi_exp_statement.commitments_to_exponents = shf.proof.b_commits

\* A run with a permutation that moves the first position, masking factors
\* that are not all 0, a challenge x other than 0 and 1 and an aggregate that
\* is not the identity ciphertext.
C22_Witness ==
    /\ shf.pc = "verified"
    /\ shf.used = shf.witness
    /\ shf.witness.permutation[1] # 1
    /\ \E i \in 1..Len(shf.witness.rho) : shf.witness.rho[i] # 0
    /\ shf.seen.x \notin {0, 1}
    /\ shf.seen.product # CipherZero
    /\ shf.prover.product = shf.seen.product
    /\ shf.res = Ok

\* ------------------------------------------------------------ statement validation

\* C23: verify of the shuffle argument called with a statement that is_valid
\* refuses returns InvalidShuffleStatement, leaves the transcript in the state
\* it was handed in and verifies no sub-argument; verify of the product
\* argument called with a statement whose number of commitments is not m
\* returns InvalidProductArgumentStatement with the transcript it was handed,
\* before its tag is absorbed.
C23_ValidationFirst ==
    /\ shf.pc = "verified_misstated" =>
          /\ shf.res.kind = "InvalidShuffleStatement"
          /\ fsV = from_seed(key, <<1>>)
          /\ shf.pa = None /\ shf.me = None
          /\ shf.sub = [zero |-> None, had |-> None, svp |-> None]
    /\ (shf.pc = "product_verified" /\ shf.direct.m # shf.statement.m) =>
          /\ shf.direct.res.kind = "InvalidProductArgumentStatement"
          /\ shf.direct.fs = shf.prover.handed
          /\ shf.direct.had = None /\ shf.direct.svp = None

\* verify was called with a statement one shuffled ciphertext short, for a
\* proof that verify accepts with the statement it was made for.
C23_Witness ==
    /\ shf.pc = "verified_misstated"
    /\ Len(shf.given.shuffled_ciphers) = Len(shf.given.input_ciphers) - 1
    /\ shf.given.m = 3
    /\ shf.res = InvalidShuffleStatement
    /\ fsV = from_seed(key, <<1>>)
    /\ Shuffle_verify(key, shf.proof, shf.pp, shf.statement, fsV).res = Ok
    /\ Shuffle_verify(key, shf.proof, shf.pp, shf.statement, fsV).fs # fsV

\* ------------------------------------------------------------ order of the sub-arguments

\* verify of the shuffle argument was called with a valid statement.
ShuffleArgumentsVerified ==
    shf.pc \in {"verified", "verified_swapped", "verified_tampered"}

\* The result of the product argument called by the shuffle verifier, on the
\* transcript and the statement the verifier derived.
ShuffleSeenProductArgument ==
    PA_verify(key, shf.proof.product_argument_proof,
              PAParameters(shf.given.m, shf.given.n, shf.pp.commit_key),
              PAStatement(shf.seen.commitments_to_a, shf.seen.expected_product),
              shf.seen.handed)

\* The result of the multi-exponentiation argument on the transcript t.
ShuffleSeenMultiExp(t) ==
    ME_verify(key, shf.proof.multi_exp_proof,
              MEParameters(shf.pp.encrypt_parameters, shf.pp.public_key, shf.pp.commit_key,
                           shf.pp.generator),
              shf.seen.multi_exp_statement, t)

\* C24: the shuffle verifier runs the product argument and then the
\* multi-exponentiation argument on the transcript the product argument left,
\* and the product argument runs the Hadamard argument and then the single
\* value product argument; the first sub-verification that fails ends the
\* call with its error, the later ones are not run, and Ok is returned only
\* if every sub-verification returned Ok.
C24_OrderAndFailFast ==
    ShuffleArgumentsVerified =>
        /\ shf.sub.had # None
        /\ shf.sub.had # Ok => (shf.pa = shf.sub.had /\ shf.sub.svp = None)
        /\ shf.sub.had = Ok => (shf.sub.svp # None /\ shf.pa = shf.sub.svp)
        /\ shf.pa # Ok => (shf.res = shf.pa /\ shf.me = None)
        /\ shf.pa = Ok => (shf.me # None /\ shf.res = shf.me)
        /\ shf.res = Ok <=> (shf.sub.had = Ok /\ shf.sub.svp = Ok /\ shf.me = Ok)
        /\ shf.pa = ShuffleSeenProductArgument.res
        /\ shf.pa = Ok =>
              /\ shf.me = ShuffleSeenMultiExp(ShuffleSeenProductArgument.fs).res
              /\ fsV = ShuffleSeenMultiExp(ShuffleSeenProductArgument.fs).fs

\* The Hadamard argument fails in a proof whose single value product and
\* multi-exponentiation arguments would fail as well.
C24_Witness ==
    /\ shf.pc = "verified_tampered"
    /\ shf.sub.had # Ok
    /\ shf.sub.svp = None
    /\ shf.me = None
    /\ shf.res = shf.sub.had
    /\ ShuffleSeenMultiExp(ShuffleSeenProductArgument.fs).res # Ok

\* ------------------------------------------------------------ zero-value argument runs

\* The dimension pairs (m, n) of the zero-value statements explored.
ZeroValueDims == {<<2, 2>>, <<3, 1>>}

\* The witnesses of the zero-value argument under the bilinear map of y: rows
\* A_i with entries from {1, 2} and rows B_i with sum_i A_i * B_i = 0.
ZeroValueWitnesses(m, n, y) ==
    {ZVWitness(A, [i \in 1..m |-> i % Q], B, [i \in 1..m |-> (i + 1) % Q]) :
       <<A, B>> \in {ab \in [1..m -> [1..n -> {1, 2}]] \X [1..m -> [1..n -> F]] :
                       SumF([i \in 1..m |-> compute_mapping(y, ab[1][i], ab[2][i])]) = 0}}

\* A statement (cA[1..m], cB[1..m], y) with a witness it was made of.
ZeroValueInit ==
    /\ key \in {k \in Keys : k.d = 0}
    /\ rng \in {r \in RngStates : r.c = 0 /\ r.s \in {0, Q - 1}}
    /\ fsP = from_seed(key, <<1>>)
    /\ fsV = from_seed(key, <<1>>)
    /\ \E dims \in ZeroValueDims, y \in {1, 2} :
         \E witness \in ZeroValueWitnesses(dims[1], dims[2], y) :
           LET commit_key == CommitKey([j \in 1..dims[2] |-> j], 4)
           IN  zvarg = [pc |-> "ready", pp |-> ZVParameters(dims[1], dims[2], commit_key),
                        statement |-> ZVStatement(
                            [i \in 1..dims[1] |->
                               commit(commit_key, witness.A[i], witness.r[i])],
                            [i \in 1..dims[1] |->
                               commit(commit_key, witness.B[i], witness.s[i])],
                            y),
                        witness |-> witness, a_0 |-> <<>>, b_m |-> <<>>, x |-> 0,
                        proof |-> <<>>, res |-> None]
    /\ sch = Idle
    /\ cp = Idle
    /\ fedl = Idle
    /\ shf = Idle
    /\ ped = Idle
    /\ svarg = Idle
    /\ hparg = Idle
    /\ mearg = Idle

\* The prover of the zero-value argument makes the proof.
ZeroValueProve ==
    /\ zvarg.pc = "ready"
    /\ \E out \in {ZV_prove(key, rng, fsP, zvarg.pp, zvarg.statement, zvarg.witness)} :
         /\ zvarg' = [zvarg EXCEPT !.pc = "proved", !.proof = out.proof, !.x = out.x,
                                    !.a_0 = out.a_0, !.b_m = out.b_m]
         /\ fsP' = out.fs
         /\ rng' = out.rng
    /\ UNCHANGED <<key, fsV, sch, cp, fedl, shf, ped, svarg, hparg, mearg>>

\* Proof::verify of the zero-value argument.
ZeroValueVerify ==
    /\ zvarg.pc = "proved"
    /\ \E out \in {ZV_verify(key, zvarg.proof, zvarg.pp, zvarg.statement, fsV)} :
         /\ zvarg' = [zvarg EXCEPT !.pc = "verified", !.res = out.res]
         /\ fsV' = out.fs
    /\ UNCHANGED <<key, rng, fsP, sch, cp, fedl, shf, ped, svarg, hparg, mearg>>

ZeroValueNext ==
    \/ ZeroValueProve
    \/ ZeroValueVerify

SpecZeroValue == ZeroValueInit /\ [][ZeroValueNext]_vars

\* The rows A_0..A_m and B_1..B_{m+1} of the run: the witness with the
\* prover's blinding rows.
ZeroValueRowsA ==
    [i \in 0..zvarg.pp.m |-> IF i = 0 THEN zvarg.a_0 ELSE zvarg.witness.A[i]]
ZeroValueRowsB ==
    [j \in 1..(zvarg.pp.m + 1) |->
       IF j = zvarg.pp.m + 1 THEN zvarg.b_m ELSE zvarg.witness.B[j]]

\* The diagonal sum d_k as section 4.6 defines it: the products A_i * B_j with
\* j - i = k - m.
ZeroValueDiagonalAsSpecified(k) ==
    SumF([ii \in 1..(zvarg.pp.m + 1) |->
            LET i == ii - 1
                j == i + k - zvarg.pp.m
            IN  IF j \in 1..(zvarg.pp.m + 1)
                THEN compute_mapping(zvarg.statement.bilinear_map,
                                     ZeroValueRowsA[i], ZeroValueRowsB[j])
                ELSE 0])

\* The diagonal sum d_k the proof commits to: the products A_i * B_j with
\* j - i = m + 1 - k.
ZeroValueDiagonal(k) ==
    ZVDiagonal(zvarg.statement.bilinear_map, ZeroValueRowsA, ZeroValueRowsB, zvarg.pp.m, k)

\* a_bar = A_0 + sum x^i A_i and b_bar = B_{m+1} + sum x^{m+1-i} B_i.
ZeroValueBlinded ==
    LET m == zvarg.pp.m
        n == zvarg.pp.n
        x == zvarg.x
    IN  [a |-> [c \in 1..n |->
                  SumF([ii \in 1..(m + 1) |->
                          FMul(Pow(x, ii - 1) % Q, ZeroValueRowsA[ii - 1][c])])],
         b |-> [c \in 1..n |->
                  SumF([j \in 1..(m + 1) |->
                          FMul(Pow(x, m + 1 - j) % Q, ZeroValueRowsB[j][c])])]]

ZeroValueBlindedProduct ==
    compute_mapping(zvarg.statement.bilinear_map, ZeroValueBlinded.a, ZeroValueBlinded.b)

\* The four checks of the verifier on the proof, with the challenge x.
ZeroValueChecksPass ==
    LET m == zvarg.pp.m
        ck == zvarg.pp.commit_key
        proof == zvarg.proof
        powers == [k \in 0..(2 * m) |-> Pow(zvarg.x, k) % Q]
    IN  /\ proof.vector_of_committed_diagonals[m + 2] = commit(ck, <<0>>, 0)
        /\ commit(ck, proof.a_blinded, proof.r_blinded)
             = GAdd(proof.a_0_commit,
                    SumF([i \in 1..m |-> GMul(zvarg.statement.commitment_to_a[i], powers[i])]))
        /\ commit(ck, proof.b_blinded, proof.s_blinded)
             = GAdd(proof.b_m_commit,
                    SumF([i \in 1..m |->
                            GMul(zvarg.statement.commitment_to_b[i], powers[m + 1 - i])]))
        /\ commit(ck, <<compute_mapping(zvarg.statement.bilinear_map, proof.a_blinded,
                                        proof.b_blinded)>>, proof.t_blinded)
             = SumF([kk \in 1..(2 * m + 1) |->
                       GMul(proof.vector_of_committed_diagonals[kk], powers[kk - 1])])

\* C25 as stated: with the diagonal sums of section 4.6, d_k the sum of the
\* A_i * B_j with j - i = k - m, an honest run has d_{m+1} = 0 and
\* sum_k x^k d_k = a_bar * b_bar.
C25_DiagonalsAsSpecified ==
    zvarg.pc = "verified" =>
        /\ ZeroValueDiagonalAsSpecified(zvarg.pp.m + 1) = 0
        /\ SumF([kk \in 1..(2 * zvarg.pp.m + 1) |->
                   FMul(Pow(zvarg.x, kk - 1) % Q, ZeroValueDiagonalAsSpecified(kk - 1))])
             = ZeroValueBlindedProduct

\* C25: with d_k the sum of the A_i * B_j with j - i = m + 1 - k, for every
\* witness with sum_i A_i * B_i = 0, all blinding rows and every challenge x:
\* d_{m+1} = 0 and sum_k x^k d_k = a_bar * b_bar for a_bar = A_0 + sum x^i A_i
\* and b_bar = B_{m+1} + sum x^{m+1-i} B_i, the proof carries a_bar and b_bar
\* and a commitment to 0 under 0 at index m+1, the four checks of the verifier
\* pass and verify returns Ok.
C25_DiagonalsOfProof ==
    zvarg.pc = "verified" =>
        /\ ZeroValueDiagonal(zvarg.pp.m + 1) = 0
        /\ SumF([kk \in 1..(2 * zvarg.pp.m + 1) |->
                   FMul(Pow(zvarg.x, kk - 1) % Q, ZeroValueDiagonal(kk - 1))])
             = ZeroValueBlindedProduct
        /\ zvarg.proof.a_blinded = ZeroValueBlinded.a
        /\ zvarg.proof.b_blinded = ZeroValueBlinded.b
        /\ ZeroValueChecksPass
        /\ zvarg.res = Ok

\* A run with three rows, blinding rows that are not 0, a challenge other
\* than 0 and 1 and a diagonal sum d_m that is not 0.
C25_Witness ==
    /\ zvarg.pc = "verified"
    /\ zvarg.pp.m = 3
    /\ zvarg.x \notin {0, 1}
    /\ zvarg.a_0 # <<0>>
    /\ zvarg.b_m # <<0>>
    /\ ZeroValueDiagonal(zvarg.pp.m) # 0
    /\ ZeroValueDiagonal(zvarg.pp.m + 1) = 0
    /\ ZeroValueBlindedProduct # 0
    /\ zvarg.res = Ok

\* ------------------------------------------------------------ Hadamard reduction

\* The Hadamard verifier passed its two equality checks and derived the
\* statement of the zero-value argument.
HadamardReduced == hparg.pc = "verified" /\ HadamardFirstEqual /\ HadamardLastEqual

\* sum_{i=1..m-1} x^i (A_{i+1} o B_i - B_{i+1}) for the rows A of the witness
\* and B_i = A_1 o ... o A_i, a vector of n entries.
HadamardVanishing(x) ==
    LET A == hparg.witness.A
        m == hparg.pp.m
    IN  [j \in 1..hparg.pp.n |->
           SumF([i \in 1..(m - 1) |->
                   FMul(Pow(x, i) % Q,
                        FSub(FMul(A[i + 1][j], HadamardRows(A, i)[j]),
                             HadamardRows(A, i + 1)[j]))])]

\* C26: for B_1 = A_1, B_{i+1} = A_{i+1} o B_i, B_m = b and the challenges x
\* and y, the zero-value statement the Hadamard verifier derives has m
\* commitments on each side, the left ones cA[2..m] followed by
\* Commit((-1,...,-1), 0), the right ones x^i*cB'[i] for i = 1..m-1 followed by
\* sum_{i=1..m-1} x^i*cB'[i+1]; they open to the rows A_2..A_m, (-1,...,-1) and
\* x^i*B_i, sum x^i*B_{i+1}, whose sum under the bilinear map of y is the
\* y-weighted sum of the entries of sum x^i (A_{i+1} o B_i - B_{i+1}), which
\* is 0.
C26_HadamardReduction ==
    HadamardReduced =>
        LET m == hparg.pp.m
            n == hparg.pp.n
            ck == hparg.pp.commit_key
            x == hparg.seen.x
            y == hparg.seen.y
            st == hparg.seen.zero_arg_statement
            w == hparg.zero_witness
            A == hparg.witness.A
        IN  /\ Len(st.commitment_to_a) = m
            /\ Len(st.commitment_to_b) = m
            /\ \A i \in 1..(m - 1) :
                  /\ st.commitment_to_a[i] = hparg.statement.commitment_to_a[i + 1]
                  /\ st.commitment_to_b[i] = GMul(hparg.proof.b_commits[i], Pow(x, i) % Q)
                  /\ w.A[i] = A[i + 1]
                  /\ w.B[i] = VecScale(HadamardRows(A, i), Pow(x, i) % Q)
            /\ st.commitment_to_a[m] = commit(ck, [j \in 1..n |-> FNeg(1)], 0)
            /\ st.commitment_to_b[m]
                 = SumF([i \in 1..(m - 1) |->
                           GMul(hparg.proof.b_commits[i + 1], Pow(x, i) % Q)])
            /\ w.A[m] = [j \in 1..n |-> FNeg(1)]
            /\ w.B[m] = [j \in 1..n |->
                           SumF([i \in 1..(m - 1) |->
                                   FMul(Pow(x, i) % Q, HadamardRows(A, i + 1)[j])])]
            /\ \A i \in 1..m :
                  /\ st.commitment_to_a[i] = commit(ck, w.A[i], w.r[i])
                  /\ st.commitment_to_b[i] = commit(ck, w.B[i], w.s[i])
            /\ st.bilinear_map = y
            /\ SumF([i \in 1..m |-> compute_mapping(y, w.A[i], w.B[i])])
                 = SumF([j \in 1..n |-> FMul(Pow(y, j) % Q, HadamardVanishing(x)[j])])
            /\ HadamardVanishing(x) = [j \in 1..n |-> 0]
            /\ SumF([i \in 1..m |-> compute_mapping(y, w.A[i], w.B[i])]) = 0

\* Three rows that are not all alike, challenges x and y other than 0 and 1,
\* and right-hand rows whose products under the bilinear map are not 0 one by
\* one.
C26_Witness ==
    /\ HadamardReduced
    /\ hparg.pp.m = 3
    /\ hparg.witness.A[1] # hparg.witness.A[2]
    /\ hparg.seen.x \notin {0, 1}
    /\ hparg.seen.y \notin {0, 1}
    /\ compute_mapping(hparg.seen.y, hparg.zero_witness.A[1], hparg.zero_witness.B[1]) # 0
    /\ hparg.zero = Ok

\* ------------------------------------------------------------ checks of the multi-exponentiation verifier

\* The multi-exponentiation verifier was run by the shuffle verifier.
MultiExpVerified == ShuffleArgumentsVerified /\ shf.me # None

\* The challenge x the multi-exponentiation verifier derived.
MultiExpChallenge == ShuffleSeenMultiExp(ShuffleSeenProductArgument.fs).x

\* sum_k x^k * v[k] over all the entries of v, numbered from 0, for
\* commitments and for ciphertexts.
PowerSum(x, v) == SumF([kk \in 1..Len(v) |-> GMul(v[kk], Pow(x, kk - 1) % Q)])
PowerSumCiphers(x, v) ==
    CipherSum([kk \in 1..Len(v) |-> CipherMul(v[kk], Pow(x, kk - 1) % Q)])

\* The five equalities on the proof, the statement and the challenge x: cBk[m]
\* is the commitment to 0 under 0; Ek[m] is the claimed product; a_bar opens
\* cA0 + sum x^i*cB[i]; b_bar opens sum x^k*cBk[k]; sum x^k*Ek[k] is
\* Enc(pk, b_bar*g; tau_bar) + sum x^(m-i) * <a_bar, C'_i>.
MultiExpChecks(x) ==
    LET proof == shf.proof.multi_exp_proof
        st == shf.seen.multi_exp_statement
        m == Len(st.shuffled_ciphers)
        ck == shf.pp.commit_key
    IN  <<proof.commit_b_k[m + 1] = commit(ck, <<0>>, 0),
          proof.vector_e_k[m + 1] = st.product,
          commit(ck, proof.a_blinded, proof.r_blinded)
            = GAdd(proof.a_0_commit,
                   SumF([i \in 1..m |->
                           GMul(st.commitments_to_exponents[i], Pow(x, i) % Q)])),
          commit(ck, <<proof.b_blinded>>, proof.s_blinded) = PowerSum(x, proof.commit_b_k),
          PowerSumCiphers(x, proof.vector_e_k)
            = CipherAdd(encrypt(shf.pp.encrypt_parameters, shf.pp.public_key,
                                GMul(shf.pp.generator, proof.b_blinded), proof.tau_blinded),
                        CipherSum([i \in 1..m |->
                                     CipherMul(dot_product_ciphers(proof.a_blinded,
                                                                   st.shuffled_ciphers[i]),
                                               Pow(x, m - i) % Q)]))>>

MultiExpAllChecks(x) == \A c \in 1..5 : MultiExpChecks(x)[c]

\* cBk and Ek have the 2m entries numbered 0..2m-1.
MultiExpTwoMEntries ==
    /\ Len(shf.proof.multi_exp_proof.commit_b_k) = 2 * shf.given.m
    /\ Len(shf.proof.multi_exp_proof.vector_e_k) = 2 * shf.given.m

ShuffleShortVectors ==
    LET m == shf.given.m
        had == shf.proof.product_argument_proof.hadamard_product_proof
    IN  \/ Len(had.zero_arg_proof.vector_of_committed_diagonals) < m + 2
        \/ Len(had.b_commits) < m
        \/ Len(shf.proof.multi_exp_proof.commit_b_k) < m + 1
        \/ Len(shf.proof.multi_exp_proof.vector_e_k) < m + 1

\* C28: verify called with a proof whose vectors have too few entries returns
\* an error value; the call never ends in a panic on an index.
C28_NoPanic ==
    shf.pc = "verified_truncated" =>
        /\ shf.res # Panic
        /\ shf.res # Ok

\* A zero argument proof with m + 1 committed diagonals inside a shuffle proof
\* for three chunks: the index m + 1 is past the end and the call of verify
\* on the shuffle proof panics.
C28_Witness ==
    /\ shf.pc = "verified_truncated"
    /\ shf.given.m = 3
    /\ Len(shf.proof.product_argument_proof.hadamard_product_proof.zero_arg_proof
              .vector_of_committed_diagonals) = shf.given.m + 1
    /\ ShuffleShortVectors
    /\ shf.sub.zero = Panic
    /\ shf.res = Panic

\* ------------------------------------------------------------ serialized proofs

\* The result of verify on the proof as prove returned it, on a transcript
\* from the verifier's seed.
SchnorrVerifiedAsMade ==
    Schnorr_verify(key, sch.made, sch.pp, sch.statement, from_seed(key, <<sch.seedV>>)).res

\* C29: the bytes absorbed for the commitment of a Schnorr proof are those of
\* its group element, whatever representative holds it, and a proof that
\* verifies as prove returned it verifies after it has been serialized and
\* deserialized.
C29_RoundTripVerifies ==
    (sch.pc = "reloaded" /\ Len(sch.results) >= 1) =>
        /\ sch.proof.random_commit.pt = sch.made.random_commit.pt
        /\ ProjBytes(sch.proof.random_commit) = ProjBytes(sch.made.random_commit)
        /\ SchnorrVerifiedAsMade = Ok => sch.results[1] = Ok

\* An honest proof for a statement that is not the identity, verified from the
\* prover's seed: accepted as made, rejected after the round trip, which kept
\* the group element and the opening.
C29_Witness ==
    /\ sch.pc = "reloaded"
    /\ Len(sch.results) >= 1
    /\ sch.witness = sch.sk
    /\ sch.seedV = sch.seedP
    /\ sch.statement # 0
    /\ sch.proof.random_commit.pt = sch.made.random_commit.pt
    /\ sch.proof.opening = sch.made.opening
    /\ sch.made.random_commit.z # 1
    /\ SchnorrVerifiedAsMade = Ok
    /\ sch.results[1] = ProofVerificationError("Schnorr Identification")

\* ------------------------------------------------------------ sizes and indices

\* C30: for every n >= 1, n = 1 included, the unsigned size computations of
\* the single value product prover stay non-negative: prove samples its n - 2
\* free delta values and returns a proof.
C30_NoUnderflow ==
    svarg.pc # "ready" =>
        /\ svarg.proved = Ok
        /\ svarg.pc # "aborted"

\* prove called for a vector of one entry with its commitment: n - 2 is below
\* 0 and the call ends in a panic without a proof.
C30_Witness ==
    /\ svarg.pc = "aborted"
    /\ svarg.pp.n = 1
    /\ svarg.used = svarg.witness
    /\ svarg.statement.b = svarg.witness.a[1]
    /\ svarg.proved.kind = "panic"
    /\ svarg.proof = <<>>

====
